---- MODULE Spec2Model ----
(***************************************************************************)
(* Asgard: the transaction scope (application.py, table_manager.py), the   *)
(* per-table data-access facade (TableManager) and the query builder       *)
(* (expression.py) it drives.                                              *)
(*                                                                         *)
(* Spec       one context's transaction() scope around facade calls        *)
(* SpecTable  the facade operations on one table inside an open            *)
(*            transaction (the situation DbTest.setUp creates)             *)
(* SpecCount  read / count / read_and_count on test_table3 -> test_table2  *)
(* SpecState  change_state of a StateTableManager                          *)
(* SpecCache  _compile and its cache of parsed trees, one thread           *)
(* SpecWorkers  _compile called by several threads                         *)
(* SpecColumn column() of one QueryBuilderHelper                           *)
(***************************************************************************)
EXTENDS Integers, Sequences, FiniteSets, TLC

VARIABLES
    conn_stack,    \* _conn_stack: the context's LocalStack of connections
    committed,     \* rows of test_table that are durable in the database
    db,            \* rows of test_table as the open connection sees them
    before_scope,  \* history: committed rows when the current scope was entered
    exc,           \* the exception travelling through the body of the scope
    outcome,       \* what the last transaction() entry or exit did
    last,          \* the last facade call: arguments, result, exception
    cache,         \* _cache: the pylru.lrucache of parsed trees
    compiled,      \* history: the calls of _compile, oldest first
    workers,       \* the threads inside _compile: position and locals
    qbh,           \* a QueryBuilderHelper: its table and its fk_columns tree
    columns        \* history: the calls of column() on qbh, oldest first

vars == <<conn_stack, committed, db, before_scope, exc, outcome, last,
          cache, compiled, workers, qbh, columns>>

expression_vars == <<cache, compiled, workers, qbh, columns>>

(***************************************************************************)
(* Bounds                                                                  *)
(***************************************************************************)
MaxId == 2         \* primary keys the driver hands out: 1..MaxId
MaxIds == 2        \* longest id list given to a *_many_by_id call
MaxCreate == 2     \* longest values_list given to create_many
MaxCacheSize == 2  \* largest capacity the cache is built with
MaxCompiles == 4   \* calls of _compile in one behaviour
MaxColumns == 3    \* calls of column() on one QueryBuilderHelper

Ids == 1..MaxId

\* Python None / SQL NULL in a string column
None == "None"

\* Python's {} (a dictionary with no key)
EmptyDict == [c \in {} |-> None]

\* an argument left at its default None where a dictionary is expected
NoValues == [none |-> None]

\* an argument left at its default None where a list of names is expected
NoFields == <<None>>

\* sequences over S of length 0..n
SeqUpTo(S, n) == UNION {[1..k -> S] : k \in 0..n}

(***************************************************************************)
(* Schema catalog: the tables of tablemanagertest.py and expressiontest.py.*)
(* A row is a record over the table's columns, a table the set of its rows,*)
(* a database a function from table names to tables.                       *)
(***************************************************************************)
Tables == {"test_table", "test_table2", "test_table3", "test_table4",
           "state_table", "stamped_table"}

\* table.c.keys(): the columns in declaration order
ColumnsOf(t) ==
    CASE t = "test_table"  -> <<"id", "key", "value">>
      [] t = "test_table2" -> <<"id", "key", "value">>
      [] t = "test_table3" -> <<"id", "key", "table2">>
      [] t = "test_table4" -> <<"id", "key", "table3", "other3", "pair", "bykey">>
      [] t = "state_table" -> <<"id", "key", "state">>
      [] t = "stamped_table" -> <<"id", "key", "state", "last_state_change">>

ColumnSet(t) == {ColumnsOf(t)[i] : i \in 1..Len(ColumnsOf(t))}

\* names that are attributes of every column collection table.c without
\* being columns (its methods keys, values, items, ...)
CollectionAttributes == {"keys"}

\* hasattr(table.c, name)
HasColumn(t, name) == name \in ColumnSet(t) \cup CollectionAttributes

ColType(t, c) ==
    IF c \in {"id", "table2", "table3", "other3", "pair", "last_state_change"}
    THEN "int" ELSE "str"

\* col.foreign_keys
ForeignKeys(t, c) ==
    CASE t = "test_table3" /\ c = "table2" -> {[table |-> "test_table2", column |-> "id"]}
      [] t = "test_table4" /\ c \in {"table3", "other3"} ->
            {[table |-> "test_table3", column |-> "id"]}
      [] t = "test_table4" /\ c = "pair" ->
            {[table |-> "test_table2", column |-> "id"],
             [table |-> "test_table3", column |-> "id"]}
      [] t = "test_table4" /\ c = "bykey" -> {[table |-> "test_table2", column |-> "key"]}
      [] OTHER -> {}

\* SQL NULL: None in a string column, 0 in an integer column (ids start at 1)
NullOf(type) == IF type = "int" THEN 0 ELSE None

IsNull(v, type) == v = NullOf(type)

\* the row an outer join supplies when no row matches
NullRow(t) == [c \in ColumnSet(t) |-> NullOf(ColType(t, c))]

\* sa.Column('key', ..., unique=True)
Unique(t, c) == c = "key"

\* the rows break a unique constraint of t (NULLs never collide)
ViolatesUnique(t, rows) ==
    \E c \in ColumnSet(t) :
        /\ Unique(t, c)
        /\ \E r1, r2 \in rows :
              r1 # r2 /\ r1[c] = r2[c] /\ ~IsNull(r1[c], ColType(t, c))

IdsOf(rows) == {r.id : r \in rows}

RowOf(rows, id) == CHOOSE r \in rows : r.id = id

\* val = val or {}
OrEmpty(val) == IF val = NoValues \/ val = EmptyDict THEN EmptyDict ELSE val

\* the row INSERT makes from a dictionary: columns not given are NULL, the
\* primary key is the one the driver generates
InsertedRow(t, id, val) ==
    [c \in ColumnSet(t) |-> IF c \in DOMAIN val THEN val[c]
                            ELSE IF c = "id" THEN id
                            ELSE NullOf(ColType(t, c))]

\* the row UPDATE ... SET values makes of a row
UpdatedRow(t, row, values) ==
    [c \in ColumnSet(t) |-> IF c \in DOMAIN values THEN values[c] ELSE row[c]]

(***************************************************************************)
(* SQL expressions (SQLAlchemy ClauseElement) are records tagged by kind:  *)
(*   column   a column of the root table (alias <<>>) or of a join alias   *)
(*   literal  a bind parameter carrying a Python value                     *)
(*   binary   left op right;   in   column IN (values);   and, or, not     *)
(*   in_select  id IN (SELECT id FROM joins WHERE where)                   *)
(* A Python value that is no ClauseElement is tagged "python".             *)
(***************************************************************************)
Column(alias, table, name) ==
    [kind |-> "column", alias |-> alias, table |-> table, name |-> name]

Literal(v) == [kind |-> "literal", value |-> v]

Python(v) == [kind |-> "python", value |-> v]

\* table.c.id.in_(ids)
IdIn(t, ids) ==
    [kind |-> "in", left |-> Column(<<>>, t, "id"), values |-> ids]

\* isinstance(x, expr.ClauseElement)
IsClauseElement(x) == x.kind \notin {"python", "list"}

\* a Python operand of an SQL operator becomes a bind parameter
AsClause(x) == IF IsClauseElement(x) THEN x ELSE Literal(x.value)

Front(s) == SubSeq(s, 1, Len(s) - 1)

Last(s) == s[Len(s)]

Range(s) == {s[i] : i \in 1..Len(s)}

\* the aliases (with their tables) whose columns an expression mentions
RECURSIVE Froms(_)
Froms(c) ==
    CASE c.kind = "column"  -> {[alias |-> c.alias, table |-> c.table]}
      [] c.kind = "literal" -> {}
      [] c.kind = "binary"  -> Froms(c.left) \cup Froms(c.right)
      [] c.kind = "in"      -> Froms(c.left)
      [] c.kind \in {"and", "or"} -> Froms(c.left) \cup Froms(c.right)
      [] c.kind = "not"     -> Froms(c.arg)
      [] c.kind = "in_select" -> Froms(c.left)

(***************************************************************************)
(* The relational driver: conn.execute.  A FROM clause yields environments *)
(* (alias -> row); WHERE keeps those where the predicate is true in SQL's  *)
(* three-valued logic ("T", "F", "U" for NULL).                            *)
(***************************************************************************)
Not3(a) == CASE a = "T" -> "F" [] a = "F" -> "T" [] OTHER -> "U"

And3(a, b) ==
    IF a = "F" \/ b = "F" THEN "F" ELSE IF a = "T" /\ b = "T" THEN "T" ELSE "U"

Or3(a, b) ==
    IF a = "T" \/ b = "T" THEN "T" ELSE IF a = "F" /\ b = "F" THEN "F" ELSE "U"

\* the SQL type of an operand: a column's declared type, else the other side's
TypeOf(c, other) ==
    IF c.kind = "column" THEN ColType(c.table, c.name)
    ELSE IF other.kind = "column" THEN ColType(other.table, other.name)
    ELSE "str"

\* LEFT OUTER JOIN alias ON alias.id = parent.fk, one join after the other
RECURSIVE OuterJoin(_, _, _)
OuterJoin(database, envs, joins) ==
    IF joins = <<>> THEN envs
    ELSE LET j == Head(joins)
             Ext(e) ==
                 LET m == {r \in database[j.table] :
                              e[j.parent][j.fk] # 0 /\ r.id = e[j.parent][j.fk]}
                 IN  IF m = {} THEN {e @@ (j.alias :> NullRow(j.table))}
                     ELSE {e @@ (j.alias :> r) : r \in m}
         IN  OuterJoin(database, UNION {Ext(e) : e \in envs}, Tail(joins))

\* FROM a, b: the cartesian product with every listed alias
RECURSIVE CrossJoin(_, _, _)
CrossJoin(database, envs, extras) ==
    IF extras = {} THEN envs
    ELSE LET x == CHOOSE y \in extras : TRUE
         IN  CrossJoin(database,
                       {e @@ (x.alias :> r) : e \in envs, r \in database[x.table]},
                       extras \ {x})

RECURSIVE EvalValue(_, _, _), EvalClause(_, _, _), SelectIds(_, _)

\* the value of a scalar operand in one environment
EvalValue(database, c, env) ==
    CASE c.kind = "column"  -> env[c.alias][c.name]
      [] c.kind = "literal" -> c.value

\* the truth value of a predicate in one environment
EvalClause(database, c, env) ==
    CASE c.kind = "literal" -> IF c.value = TRUE THEN "T" ELSE "F"
      [] c.kind = "binary" /\ c.op \in {"==", "!="} ->
            LET l == EvalValue(database, c.left, env)
                r == EvalValue(database, c.right, env)
                eq == IF IsNull(l, TypeOf(c.left, c.right))
                         \/ IsNull(r, TypeOf(c.right, c.left)) THEN "U"
                      ELSE IF l = r THEN "T" ELSE "F"
            IN  IF c.op = "==" THEN eq ELSE Not3(eq)
      [] c.kind = "in" ->
            LET l == EvalValue(database, c.left, env)
            IN  IF IsNull(l, TypeOf(c.left, c.left)) THEN "U"
                ELSE IF l \in Range(c.values) THEN "T" ELSE "F"
      [] c.kind = "in_select" ->
            IF EvalValue(database, c.left, env) \in SelectIds(database, c.select)
            THEN "T" ELSE "F"
      [] c.kind = "and" ->
            And3(EvalClause(database, c.left, env), EvalClause(database, c.right, env))
      [] c.kind = "or" ->
            Or3(EvalClause(database, c.left, env), EvalClause(database, c.right, env))
      [] c.kind = "not" -> Not3(EvalClause(database, c.arg, env))

\* the environments a SELECT ranges over: its select_from join tree (when
\* given), then every alias its columns or its WHERE mention that the join
\* tree does not hold, as one more FROM element (a cartesian product)
QueryEnvs(database, q) ==
    LET start == IF q.select_from
                 THEN OuterJoin(database,
                                {(<<>> :> r) : r \in database[q.table]}, q.joins)
                 ELSE {EmptyDict}
        held == IF q.select_from
                THEN {<<>>} \cup {q.joins[i].alias : i \in 1..Len(q.joins)}
                ELSE {}
        mentioned == UNION {Froms(c) : c \in Range(q.columns)}
                     \cup (IF q.has_where THEN Froms(q.where) ELSE {})
        all == CrossJoin(database, start, {f \in mentioned : f.alias \notin held})
    IN  {e \in all : ~q.has_where \/ EvalClause(database, q.where, e) = "T"}

\* the ids a subselect SELECT table.id FROM ... WHERE ... yields
SelectIds(database, q) == {e[<<>>].id : e \in QueryEnvs(database, q)}

(***************************************************************************)
(* FQL front end.  _parser maps a source text to its tree; the trees are   *)
(* the tuples of expression.py, an identifier keeping its dotted name.     *)
(***************************************************************************)
Sources == {"key == 'a'", "key == :v", "table2.key == 'a'",
            "not (table2.key == 'a')", "key == 'a' or table2.key == 'b'"}

\* _parser.parseString(expression)[0] for the sources the model uses
parseString(expression) ==
    CASE expression = "key == 'a'" ->
            <<"op2", "==", <<"identifier", "key">>, <<"literal", "a">>>>
      [] expression = "key == :v" ->
            <<"op2", "==", <<"identifier", "key">>, <<"variable", "v">>>>
      [] expression = "table2.key == 'a'" ->
            <<"op2", "==", <<"identifier", "table2.key">>, <<"literal", "a">>>>
      [] expression = "not (table2.key == 'a')" ->
            <<"op1", "not",
              <<"op2", "==", <<"identifier", "table2.key">>, <<"literal", "a">>>>>>
      [] expression = "key == 'a' or table2.key == 'b'" ->
            <<"op2", "or",
              <<"op2", "==", <<"identifier", "key">>, <<"literal", "a">>>>,
              <<"op2", "==", <<"identifier", "table2.key">>, <<"literal", "b">>>>>>

\* _compile: the tree of a source text (a cache hit returns the tree that
\* was parsed for the same text)
compile(expression) == parseString(expression)

(***************************************************************************)
(* The grammar of _define_parser.  A source text is read as the sequence   *)
(* of its lexemes (the pieces pyparsing matches between skipped white      *)
(* space); an element of the grammar applied at position i of the text     *)
(* yields the tree it makes and the position after what it matched, or     *)
(* fails.  A literal keeps its value as text: "True", "False", "1", "a".   *)
(***************************************************************************)
Keywords == {"true", "false", "null", "and", "or", "not", "in", "like", "ilike"}

\* the lexemes Word(alphas + "_", alphanums + "_") matches
Words == {"a", "b", "c", "key", "value", "table2", "keys"} \cup Keywords

\* the lexemes Word(nums) matches
Numbers == {"1", "2", "3"}

\* the lexemes quotedString matches
QuotedStrings == {"'a'", "'b'"}

\* the lexemes Combine(":" + Word(alphas + "_", alphanums + "_")) matches
Variables == {":v", ":w"}

\* ast.literal_eval(x[0]) of a quoted string
literal_eval(t) == IF t = "'a'" THEN "a" ELSE "b"

\* x[0][1:] of a variable
variable_name(t) == IF t = ":v" THEN "v" ELSE "w"

\* _none_val, the value of the literal null in a tree
none_val == "_none_val"

Parsed(tree, next) == [ok |-> TRUE, tree |-> tree, next |-> next]

NoParse == [ok |-> FALSE, tree |-> <<>>, next |-> 0]

\* the lexeme at position i, "" past the end of the text
At(toks, i) == IF i \in 1..Len(toks) THEN toks[i] ELSE ""

\* literal = boolean_literal | string_literal | float_literal |
\*           integer_literal | null_literal
literal(toks, i) ==
    LET t == At(toks, i)
    IN  CASE t = "true"  -> Parsed(<<"literal", "True">>, i + 1)
          [] t = "false" -> Parsed(<<"literal", "False">>, i + 1)
          [] t \in QuotedStrings -> Parsed(<<"literal", literal_eval(t)>>, i + 1)
          [] t \in Numbers -> Parsed(<<"literal", t>>, i + 1)
          [] t = "null"  -> Parsed(<<"literal", none_val>>, i + 1)
          [] OTHER -> NoParse

\* delimitedList(identifier_part, ".") after its first identifier_part:
\* ZeroOrMore("." + identifier_part), joined with "."
RECURSIVE identifier_parts(_, _, _)
identifier_parts(toks, i, name) ==
    IF At(toks, i) = "." /\ At(toks, i + 1) \in Words
    THEN identifier_parts(toks, i + 2, name \o "." \o toks[i + 1])
    ELSE Parsed(<<"identifier", name>>, i)

identifier(toks, i) ==
    IF At(toks, i) \in Words THEN identifier_parts(toks, i + 1, toks[i]) ELSE NoParse

variable(toks, i) ==
    IF At(toks, i) \in Variables
    THEN Parsed(<<"variable", variable_name(toks[i])>>, i + 1)
    ELSE NoParse

\* the levels with binary + - listed before * / %
OperatorsAdditiveFirst ==
    <<{"+", "-"}, {"not"}, {"+", "-"}, {"*", "/", "%"}, {"<=", ">=", "<", ">"},
      {"==", "!=", "in", "like", "ilike"}, {"and"}, {"or"}>>

\* the operators of the levels of operatorPrecedence, tightest first
Operators ==
    <<{"+", "-"}, {"not"}, {"*", "/", "%"}, {"+", "-"}, {"<=", ">=", "<", ">"},
      {"==", "!=", "in", "like", "ilike"}, {"and"}, {"or"}>>

\* op1_action
op1_action(x) == <<"op1", x[1], x[2]>>

\* op2_action that folds the chain from the right
RECURSIVE op2_action_right(_)
op2_action_right(x) ==
    IF Len(x) = 1 THEN x[1]
    ELSE <<"op2", x[2], x[1], op2_action_right(SubSeq(x, 3, Len(x)))>>

\* op2_action: [a, op, b, op, c, ...] becomes one tree
RECURSIVE op2_action(_)
op2_action(x) ==
    IF Len(x) = 1 THEN x[1]
    ELSE op2_action(<<<<"op2", x[2], x[1], x[3]>>>> \o SubSeq(x, 4, Len(x)))

\* level(n, ...) is the expression operatorPrecedence builds for the first n
\* levels: level 0 is rvalue | "(" expression ")", a level of unary
\* operators is (operator + itself) | the level below, a level of binary
\* operators is the level below + OneOrMore(operator + the level below) |
\* the level below
RECURSIVE level(_, _, _), operands(_, _, _, _), list_expr(_, _), list_items(_, _, _)
level(n, toks, i) ==
    LET rvalue(lit, id, var) ==
            IF lit.ok THEN lit
            ELSE IF id.ok THEN id
            ELSE IF var.ok THEN var
            ELSE list_expr(toks, i)
        closed(e) == IF e.ok /\ At(toks, e.next) = ")" THEN Parsed(e.tree, e.next + 1)
                     ELSE NoParse
        base(r) == IF r.ok THEN r
                   ELSE IF At(toks, i) = "(" THEN closed(level(Len(Operators), toks, i + 1))
                   ELSE NoParse
        unary(e) == IF e.ok THEN Parsed(op1_action(<<toks[i], e.tree>>), e.next)
                    ELSE level(n - 1, toks, i)
        folded(x) == Parsed(op2_action(x.tree), x.next)
        binary(e) == IF e.ok THEN folded(operands(n, toks, e.next, <<e.tree>>)) ELSE e
    IN  IF n = 0 THEN base(rvalue(literal(toks, i), identifier(toks, i), variable(toks, i)))
        ELSE IF n \in {1, 2}
        THEN IF At(toks, i) \in Operators[n] THEN unary(level(n, toks, i + 1))
             ELSE level(n - 1, toks, i)
        ELSE binary(level(n - 1, toks, i))

\* ZeroOrMore(operator + the level below) after the operands in x
operands(n, toks, i, x) ==
    LET more(e) == IF e.ok THEN operands(n, toks, e.next, x \o <<toks[i], e.tree>>)
                   ELSE Parsed(x, i)
    IN  IF At(toks, i) \in Operators[n] THEN more(level(n - 1, toks, i + 1))
        ELSE Parsed(x, i)

\* list_expr = "[" + delimitedList(expression) + "]"
list_expr(toks, i) ==
    LET bracket(l) == IF l.ok /\ At(toks, l.next) = "]"
                      THEN Parsed(<<"list", l.tree>>, l.next + 1)
                      ELSE NoParse
        first(e) == IF e.ok THEN bracket(list_items(toks, e.next, <<e.tree>>)) ELSE NoParse
    IN  IF At(toks, i) = "[" THEN first(level(Len(Operators), toks, i + 1)) ELSE NoParse

\* ZeroOrMore("," + expression) after the items in x
list_items(toks, i, x) ==
    LET more(e) == IF e.ok THEN list_items(toks, e.next, Append(x, e.tree))
                   ELSE Parsed(x, i)
    IN  IF At(toks, i) = "," THEN more(level(Len(Operators), toks, i + 1))
        ELSE Parsed(x, i)

\* program = expression + stringEnd; parseString(text)[0] or ParseException
program(toks) ==
    LET whole(e) == IF e.ok /\ e.next = Len(toks) + 1
                    THEN [raised |-> "none", tree |-> e.tree]
                    ELSE [raised |-> "ParseException", tree |-> <<>>]
    IN  whole(level(Len(Operators), toks, 1))

(***************************************************************************)
(* _cache = pylru.lrucache(CACHE_SIZE).  The cache is a circular list of   *)
(* size nodes, read here from its head (the most recently used node) to    *)
(* its tail, and a table from key to node.                                 *)
(***************************************************************************)
EmptyNode == [empty |-> TRUE, key |-> None, value |-> <<>>]

\* lrucache.__init__ / size(): assert size > 0
lrucache(size) ==
    IF size > 0
    THEN [raised |-> "none", size |-> size, list |-> [i \in 1..size |-> i],
          node |-> [i \in 1..size |-> EmptyNode], table |-> EmptyDict]
    ELSE [raised |-> "AssertionError", size |-> size, list |-> <<>>,
          node |-> <<>>, table |-> EmptyDict]

Without(list, id) == SelectSeq(list, LAMBDA x : x # id)

\* self.mtf(node); self.head = node
mtf(list, id) == <<id>> \o Without(list, id)

\* self.head = node: the circular list read from node
head_at(list, id) ==
    LET k == CHOOSE i \in 1..Len(list) : list[i] = id
    IN  SubSeq(list, k, Len(list)) \o SubSeq(list, 1, k - 1)

\* del self.table[key]
Del(table, key) == [k \in DOMAIN table \ {key} |-> table[k]]

Got(raised, value, c) == [raised |-> raised, value |-> value, cache |-> c]

\* __getitem__ that leaves the node where it is
getitem_keeps_order(c, id) == Got("none", c.node[id].value, c)

\* __getitem__ that returns the value of the head node
getitem_returns_head(c, id) ==
    Got("none", c.node[Head(c.list)].value, [c EXCEPT !.list = mtf(@, id)])

\* lrucache.__getitem__ after node = self.table[key]
getitem_node(c, id) == Got("none", c.node[id].value, [c EXCEPT !.list = mtf(@, id)])

\* lrucache.__getitem__
getitem(c, key) ==
    IF key \notin DOMAIN c.table THEN Got("KeyError", <<>>, c)
    ELSE getitem_node(c, c.table[key])

\* lrucache.__setitem__, key in self.table
setitem_update(c, id, value) ==
    Got("none", value, [c EXCEPT !.node[id].value = value, !.list = mtf(@, id)])

\* lrucache.__setitem__ after node = self.head.prev
setitem_node(c, id, key, value) ==
    IF ~c.node[id].empty /\ c.node[id].key \notin DOMAIN c.table
    THEN Got("KeyError", <<>>, c)
    ELSE Got("none", value,
             [c EXCEPT !.node[id] = [empty |-> FALSE, key |-> key, value |-> value],
                       !.table = (key :> id) @@
                                 (IF c.node[id].empty THEN c.table
                                  ELSE Del(c.table, c.node[id].key)),
                       !.list = head_at(@, id)])

\* __setitem__ that takes the head node for a new key
setitem_takes_head(c, key, value) ==
    IF key \in DOMAIN c.table THEN setitem_update(c, c.table[key], value)
    ELSE setitem_node(c, Head(c.list), key, value)

\* lrucache.__setitem__
setitem(c, key, value) ==
    IF key \in DOMAIN c.table THEN setitem_update(c, c.table[key], value)
    ELSE setitem_node(c, Last(c.list), key, value)

\* parseString raises ParseException for a text that is no expression
Parses(expression) == expression \in Sources

Compiled(raised, tree, hit, parsed, c) ==
    [raised |-> raised, tree |-> tree, hit |-> hit, parsed |-> parsed, cache |-> c]

\* _compile on the module's cache; when lrucache() raised, the module was
\* not imported and the call raises what the import raised
cached_compile(c, expression) ==
    LET store(set) == Compiled(set.raised, set.value, FALSE, TRUE, set.cache)
        miss ==
            IF ~Parses(expression) THEN Compiled("ParseException", <<>>, FALSE, TRUE, c)
            ELSE store(setitem(c, expression, parseString(expression)))
        lookup(got) ==
            IF got.raised = "none" THEN Compiled("none", got.value, TRUE, FALSE, got.cache)
            ELSE miss
    IN  IF c.raised # "none" THEN Compiled(c.raised, <<>>, FALSE, FALSE, c)
        ELSE lookup(getitem(c, expression))

\* val.split(".")
split(val) ==
    CASE val = "table2.key"   -> <<"table2", "key">>
      [] val = "table2.value" -> <<"table2", "value">>
      [] val = "table2.id"    -> <<"table2", "id">>
      [] val = "table2.keys"  -> <<"table2", "keys">>
      [] val = "table3.key"   -> <<"table3", "key">>
      [] val = "table3.id"    -> <<"table3", "id">>
      [] val = "table3.value" -> <<"table3", "value">>
      [] val = "other3.key"   -> <<"other3", "key">>
      [] val = "table3.table2.key" -> <<"table3", "table2", "key">>
      [] val = "table3.table2.id"  -> <<"table3", "table2", "id">>
      [] val = "other3.table2.key" -> <<"other3", "table2", "key">>
      [] val = "key.key"      -> <<"key", "key">>
      [] val = "id.key"       -> <<"id", "key">>
      [] val = "pair.key"     -> <<"pair", "key">>
      [] val = "bykey.key"    -> <<"bykey", "key">>
      [] val = "keys.key"     -> <<"keys", "key">>
      [] OTHER -> <<val>>

(***************************************************************************)
(* QueryBuilderHelper.  fk_columns, the tree of _JoinPart nodes, is a      *)
(* function from the path of foreign-key columns that leads to a node to   *)
(* the node's table and the number of the alias allocated for it.  Every   *)
(* step returns the tree as it leaves it, also when it fails.              *)
(***************************************************************************)
NoJoins == [p \in {} |-> [table |-> "", alias |-> 0]]

Bound(value, nodes) ==
    [ok |-> TRUE, error |-> "none", value |-> value, nodes |-> nodes]

Failed(error, nodes) ==
    [ok |-> FALSE, error |-> error, value |-> Python(None), nodes |-> nodes]

\* _column_walk that makes a new alias at every foreign-key step
join_part_always_allocates(nodes, table, column_name, child) ==
    LET other == CHOOSE fk \in ForeignKeys(table, column_name) : TRUE
    IN  IF Cardinality(ForeignKeys(table, column_name)) # 1 \/ other.column # "id"
        THEN Failed("AssertionError", nodes)
        ELSE Bound(Python(None),
                   (child :> [table |-> other.table,
                              alias |-> IF child \in DOMAIN nodes
                                        THEN nodes[child].alias + Cardinality(DOMAIN nodes)
                                        ELSE Cardinality(DOMAIN nodes) + 1]) @@ nodes)

\* the _JoinPart for the foreign key column_name of table: the child already
\* in fk_columns, or else a new alias of the table the foreign key leads to
join_part(nodes, table, column_name, child) ==
    LET check(fks) ==
            IF column_name \notin ColumnSet(table) THEN Failed("AttributeError", nodes)
            ELSE IF Cardinality(fks) = 0 THEN Failed("AssertionError", nodes)
            ELSE IF Cardinality(fks) >= 2 THEN Failed("AssertionError", nodes)
            ELSE LET other == CHOOSE fk \in fks : TRUE
                 IN  IF other.column # "id" THEN Failed("AssertionError", nodes)
                     ELSE Bound(Python(None),
                                nodes @@ (child :> [table |-> other.table,
                                                    alias |-> Cardinality(DOMAIN nodes) + 1]))
    IN  IF child \in DOMAIN nodes THEN Bound(Python(None), nodes)
        ELSE check(ForeignKeys(table, column_name))

RECURSIVE column_walk(_, _, _, _)
column_walk(root, nodes, current, vals) ==
    LET step(table, grown) ==
            IF ~HasColumn(table, vals[1]) THEN Failed("AssertionError", nodes)
            ELSE IF Len(vals) = 1
            THEN Bound(IF vals[1] \in ColumnSet(table)
                       THEN Column(current, table, vals[1])
                       ELSE Python("bound method"), nodes)
            ELSE IF ~grown.ok THEN grown
            ELSE IF vals[2] = "id" THEN Failed("AssertionError", grown.nodes)
            ELSE column_walk(root, grown.nodes, Append(current, vals[1]), Tail(vals))
        at(table) ==
            step(table, join_part(nodes, table, vals[1], Append(current, vals[1])))
    IN  at(IF current = <<>> THEN root ELSE nodes[current].table)

column(root, nodes, val) == column_walk(root, nodes, <<>>, split(val))

\* sorted(ctx.fk_columns.keys()): column names in string order
SortedNames == <<"bykey", "id", "key", "other3", "pair", "table2", "table3", "value">>

NameRank(n) == CHOOSE i \in 1..Len(SortedNames) : SortedNames[i] = n

\* the names in descending string order
RECURSIVE sorted_descending(_)
sorted_descending(names) ==
    IF names = {} THEN <<>>
    ELSE LET first == CHOOSE n \in names :
                          \A m \in names : NameRank(n) >= NameRank(m)
         IN  <<first>> \o sorted_descending(names \ {first})

RECURSIVE sorted(_)
sorted(names) ==
    IF names = {} THEN <<>>
    ELSE LET first == CHOOSE n \in names :
                          \A m \in names : NameRank(n) <= NameRank(m)
         IN  <<first>> \o sorted(names \ {first})

RECURSIVE walk_tables(_, _, _), walk_tables_loop(_, _, _, _)
walk_tables(current_from, nodes, ctx) ==
    walk_tables_loop(current_from, nodes, ctx,
        sorted({Last(p) : p \in {q \in DOMAIN nodes :
                                    Len(q) = Len(ctx) + 1 /\ Front(q) = ctx}}))

walk_tables_loop(current_from, nodes, ctx, foreign_keys) ==
    IF foreign_keys = <<>> THEN current_from
    ELSE LET fk == Head(foreign_keys)
             fkctx == Append(ctx, fk)
             joined == Append(current_from,
                              [alias |-> fkctx, table |-> nodes[fkctx].table,
                               parent |-> ctx, fk |-> fk])
         IN  walk_tables_loop(walk_tables(joined, nodes, fkctx), nodes, ctx,
                              Tail(foreign_keys))

\* the joins of the FROM clause, in the order they are emitted
from_clause(nodes) == walk_tables(<<>>, nodes, <<>>)

(***************************************************************************)
(* The Python values of a binding: None, a bool ("True", "False"), an int  *)
(* (its digits), a str, a bound method, or a list of bound values.         *)
(***************************************************************************)
PyList(items) == [kind |-> "list", value |-> items]

Digits == <<"0", "1", "2", "3", "4", "5", "6", "7", "8", "9">>

\* str(n) of an int of one digit
PyInt(n) == IF n < 0 THEN "-" \o Digits[1 - n] ELSE Digits[n + 1]

Ints == {PyInt(n) : n \in -9..9}

\* type_name(x).__name__
type_name(x) ==
    CASE x.kind = "list" -> "list"
      [] x.kind = "python" ->
            (CASE x.value = None -> "NoneType"
               [] x.value \in {"True", "False"} -> "bool"
               [] x.value \in Ints -> "int"
               [] x.value = "bound method" -> "instancemethod"
               [] OTHER -> "str")
      [] OTHER -> "ClauseElement"

\* int(x) of an int or a bool
NumOf(x) ==
    CASE x.value = "True" -> 1
      [] x.value = "False" -> 0
      [] OTHER -> CHOOSE n \in -9..9 : PyInt(n) = x.value

IsNumber(x) == type_name(x) \in {"int", "bool"}

\* x == y of two Python values
RECURSIVE PyEq(_, _)
PyEq(x, y) ==
    IF IsNumber(x) /\ IsNumber(y) THEN NumOf(x) = NumOf(y)
    ELSE IF type_name(x) # type_name(y) THEN FALSE
    ELSE IF type_name(x) = "list"
    THEN /\ Len(x.value) = Len(y.value)
         /\ \A i \in 1..Len(x.value) :
               /\ ~IsClauseElement(x.value[i])
               /\ ~IsClauseElement(y.value[i])
               /\ PyEq(x.value[i], y.value[i])
    ELSE x.value = y.value

PyBool(b) == Python(IF b THEN "True" ELSE "False")

\* s * n of a str, items * n of a list
RECURSIVE StrTimes(_, _), ListTimes(_, _)
StrTimes(v, n) == IF n <= 0 THEN "" ELSE v \o StrTimes(v, n - 1)

ListTimes(items, n) == IF n <= 0 THEN <<>> ELSE items \o ListTimes(items, n - 1)

Applied(value) == [ok |-> TRUE, error |-> "none", value |-> value]

Refused(error) == [ok |-> FALSE, error |-> error, value |-> Python(None)]

\* operator.eq, ne, add, sub, mul of two Python values
PyOperator(op, x, y) ==
    CASE op = "==" -> Applied(PyBool(PyEq(x, y)))
      [] op = "!=" -> Applied(PyBool(~PyEq(x, y)))
      [] op \in {"+", "-", "*"} /\ IsNumber(x) /\ IsNumber(y) ->
            Applied(Python(PyInt(CASE op = "+" -> NumOf(x) + NumOf(y)
                                   [] op = "-" -> NumOf(x) - NumOf(y)
                                   [] op = "*" -> NumOf(x) * NumOf(y))))
      [] op = "+" /\ type_name(x) = "str" /\ type_name(y) = "str" ->
            Applied(Python(x.value \o y.value))
      [] op = "+" /\ type_name(x) = "list" /\ type_name(y) = "list" ->
            Applied(PyList(x.value \o y.value))
      [] op = "*" /\ type_name(x) = "str" /\ IsNumber(y) ->
            Applied(Python(StrTimes(x.value, NumOf(y))))
      [] op = "*" /\ IsNumber(x) /\ type_name(y) = "str" ->
            Applied(Python(StrTimes(y.value, NumOf(x))))
      [] op = "*" /\ type_name(x) = "list" /\ IsNumber(y) ->
            Applied(PyList(ListTimes(x.value, NumOf(y))))
      [] op = "*" /\ IsNumber(x) /\ type_name(y) = "list" ->
            Applied(PyList(ListTimes(y.value, NumOf(x))))
      [] OTHER -> Refused("TypeError")

\* _operators[op](elem1, elem2); Python's operators act on two operands none
\* of which is a ClauseElement
Operator(op, elem1, elem2) ==
    CASE op \in {"in", "like", "ilike"} /\ ~IsClauseElement(elem1) ->
            Refused("AssertionError")
      [] op = "in" /\ IsClauseElement(elem1) ->
            Applied([kind |-> "in", left |-> elem1,
                     values |-> [i \in 1..Len(elem2.value) |->
                                    IF IsClauseElement(elem2.value[i])
                                    THEN elem2.value[i] ELSE elem2.value[i].value]])
      [] op \in {"and", "or"} ->
            Applied([kind |-> op, left |-> AsClause(elem1), right |-> AsClause(elem2)])
      [] op \notin {"in", "and", "or"}
         /\ (IsClauseElement(elem1) \/ IsClauseElement(elem2)) ->
            Applied([kind |-> "binary", op |-> op,
                     left |-> AsClause(elem1), right |-> AsClause(elem2)])
      [] op \in {"==", "!=", "+", "-", "*"}
         /\ ~IsClauseElement(elem1) /\ ~IsClauseElement(elem2) ->
            PyOperator(op, elem1, elem2)

\* _op1 on the bound operand: + elem, - elem, expr.not_(elem)
op1(op, e) ==
    IF ~e.ok THEN e
    ELSE IF op = "not" THEN Bound([kind |-> "not", arg |-> AsClause(e.value)], e.nodes)
    ELSE IF IsClauseElement(e.value)
    THEN Bound([kind |-> "unary", op |-> op, arg |-> e.value], e.nodes)
    ELSE IF IsNumber(e.value)
    THEN Bound(Python(PyInt(IF op = "-" THEN 0 - NumOf(e.value) ELSE NumOf(e.value))),
               e.nodes)
    ELSE Failed("TypeError", e.nodes)

\* _op2 on the bound operands
op2(op, e1, e2) ==
    LET apply(r) == IF ~r.ok THEN Failed(r.error, e2.nodes)
                    ELSE Bound(r.value, e2.nodes)
    IN  IF ~e1.ok THEN e1
        ELSE IF ~e2.ok THEN e2
        ELSE apply(Operator(op, e1.value, e2.value))

RECURSIVE walk(_, _, _, _), walk_list(_, _, _, _, _)
walk(root, nodes, values, elem) ==
    CASE elem[1] = "identifier" -> column(root, nodes, elem[2])
      [] elem[1] = "variable" ->
            IF elem[2] \in DOMAIN values
            THEN Bound(Python(values[elem[2]]), nodes)
            ELSE Failed("KeyError", nodes)
      [] elem[1] = "literal" ->
            Bound(Python(IF elem[2] = none_val THEN None ELSE elem[2]), nodes)
      [] elem[1] = "list" -> walk_list(root, nodes, values, elem[2], <<>>)
      [] elem[1] = "op1" -> op1(elem[2], walk(root, nodes, values, elem[3]))
      [] elem[1] = "op2" ->
            LET second(e1) ==
                    op2(elem[2], e1,
                        IF e1.ok THEN walk(root, e1.nodes, values, elem[4]) ELSE e1)
            IN  second(walk(root, nodes, values, elem[3]))

walk_list(root, nodes, values, items, nlist) ==
    LET rest(e) ==
            IF ~e.ok THEN e
            ELSE walk_list(root, e.nodes, values, Tail(items), Append(nlist, e.value))
    IN  IF items = <<>> THEN Bound(PyList(nlist), nodes)
        ELSE rest(walk(root, nodes, values, Head(items)))

(***************************************************************************)
(* An expression handed to the facade is None, a ClauseElement, an FQL     *)
(* source text, or a pair of a source text and a dictionary of values.     *)
(***************************************************************************)
NoExpression == [form |-> "none"]

Clause(c) == [form |-> "clause", clause |-> c]

Fql(source) == [form |-> "str", source |-> source]

FqlPair(source, values) == [form |-> "pair", source |-> source, values |-> values]

\* a source text given by its lexemes
FqlText(toks) == [form |-> "text", source |-> toks]

\* _convert_expression: the values that come with the expression
convert_expression(expression) ==
    IF expression.form = "pair" THEN expression.values ELSE EmptyDict

\* QueryBuilderHelper.where_clause; has tells a clause from None
where_clause(root, nodes, expression, values) ==
    IF expression.form = "clause"
    THEN Bound(expression.clause, nodes) @@ [has |-> TRUE]
    ELSE IF expression.form = "none"
    THEN Bound(Literal(TRUE), nodes) @@ [has |-> FALSE]
    ELSE LET clause(w) == IF ~w.ok THEN w @@ [has |-> FALSE]
                          ELSE Bound(AsClause(w.value), w.nodes) @@ [has |-> TRUE]
             parsed(p) == IF p.raised # "none"
                          THEN Failed(p.raised, nodes) @@ [has |-> FALSE]
                          ELSE clause(walk(root, nodes, values, p.tree))
         IN  IF expression.form = "text" THEN parsed(program(expression.source))
             ELSE clause(walk(root, nodes, values, compile(expression.source)))

(***************************************************************************)
(* TableManager.  An operation yields what it raises ("none" when it       *)
(* returns), what it returns and, when it writes, the database it leaves.  *)
(* An optional integer argument is a sequence of length 0 (None) or 1.     *)
(***************************************************************************)
NoInt == <<>>

\* if limit: / if offset:
Truthy(n) == n # NoInt /\ n[1] # 0

Min(a, b) == IF a <= b THEN a ELSE b

\* the place of a string among the strings the model uses, in string order
ValRank(v) ==
    CASE v = "a" -> 1 [] v = "b" -> 2 [] v = "c" -> 3 [] v = "d" -> 4
      [] v = "g" -> 5 [] v = "x" -> 6 [] OTHER -> 7

\* the sort key of one ORDER BY column in one environment; where NULL sorts
\* is the driver's choice
SortKey(col, env, nullsFirst) ==
    LET v == env[col.alias][col.name]
        type == ColType(col.table, col.name)
    IN  IF IsNull(v, type) THEN (IF nullsFirst THEN 0 ELSE 100)
        ELSE IF type = "int" THEN v ELSE ValRank(v)

\* a sorts strictly before b under ORDER BY order_bys
RECURSIVE Before(_, _, _, _)
Before(a, b, order_bys, nullsFirst) ==
    IF order_bys = <<>> THEN FALSE
    ELSE LET o == Head(order_bys)
             ka == SortKey(o.column, a, nullsFirst)
             kb == SortKey(o.column, b, nullsFirst)
         IN  IF ka = kb THEN Before(a, b, Tail(order_bys), nullsFirst)
             ELSE IF o.desc THEN ka > kb ELSE ka < kb

\* every order the driver may return the rows in
Orderings(envs, order_bys) ==
    LET n == Cardinality(envs) IN
    {s \in [1..n -> envs] :
        /\ \A i, j \in 1..n : i # j => s[i] # s[j]
        /\ \E nullsFirst \in BOOLEAN :
              \A i, j \in 1..n : i < j => ~Before(s[j], s[i], order_bys, nullsFirst)}

\* if limit: query = query.limit(limit); if offset: query = query.offset(offset)
paging(limit, offset) ==
    [limit |-> IF Truthy(limit) THEN limit ELSE NoInt,
     offset |-> IF Truthy(offset) THEN offset ELSE NoInt]

\* a LIMIT or OFFSET clause whose number is below zero
Negative(n) == n # NoInt /\ n[1] < 0

\* OFFSET, then LIMIT, as the database applies the clauses of the query; a
\* database that accepts a negative number reads LIMIT -1 as no limit and
\* OFFSET -1 as no offset
Slice(s, clauses) ==
    LET skip == IF clauses.offset # NoInt /\ clauses.offset[1] > 0
                THEN Min(clauses.offset[1], Len(s)) ELSE 0
        rest == SubSeq(s, skip + 1, Len(s))
    IN  IF clauses.limit # NoInt /\ clauses.limit[1] >= 0
        THEN SubSeq(rest, 1, Min(clauses.limit[1], Len(rest))) ELSE rest

\* selectable = [qbh.column(k) for k in fields]
RECURSIVE select_list(_, _, _, _)
select_list(root, nodes, fields, selectable) ==
    LET rest(c) ==
            IF ~c.ok THEN c
            ELSE select_list(root, c.nodes, Tail(fields), Append(selectable, c.value))
    IN  IF fields = <<>> THEN Bound(selectable, nodes)
        ELSE rest(column(root, nodes, Head(fields)))

\* the order_bys loop: each order is the match of _order_regex, a dotted
\* name and asc, desc or nothing
RECURSIVE order_list(_, _, _, _)
order_list(root, nodes, order, order_bys) ==
    LET rest(o) ==
            IF ~o.ok THEN o
            ELSE order_list(root, o.nodes, Tail(order),
                     Append(order_bys, [column |-> o.value,
                                        desc |-> Head(order).direction = "desc"]))
    IN  IF order = <<>> THEN Bound(order_bys, nodes)
        ELSE rest(column(root, nodes, Head(order).name))

Raised(error) == [raised |-> error, ret |-> <<>>]

Returned(ret) == [raised |-> "none", ret |-> ret]

\* conn.execute(query): a database that rejects a negative LIMIT or OFFSET
\* raises, one that accepts it runs the query
conn_execute(clauses, results) ==
    IF Negative(clauses.limit) \/ Negative(clauses.offset)
    THEN results \cup {Raised("DBAPIError")}
    ELSE results

\* the dictionaries read makes of the rows of the result, in one order
dicts(flds, selectable, rows) ==
    [i \in 1..Len(rows) |->
        [f \in Range(flds) |->
            rows[i][selectable[CHOOSE k \in 1..Len(flds) : flds[k] = f].alias]
                   [selectable[CHOOSE k \in 1..Len(flds) : flds[k] = f].name]]]

\* TableManager.read: every result the driver's row order allows
read(database, t, expression, fields, order, limit, offset) ==
    LET flds == IF fields = NoFields THEN ColumnsOf(t) ELSE fields
        run(sel, whr, ord) ==
            conn_execute(paging(limit, offset),
              {Returned(dicts(flds, sel.value, Slice(s, paging(limit, offset)))) :
                s \in Orderings(
                        QueryEnvs(database,
                                  [table |-> t, columns |-> sel.value,
                                   select_from |-> TRUE,
                                   joins |-> from_clause(ord.nodes),
                                   has_where |-> whr.has, where |-> whr.value]),
                        ord.value)})
        orders(sel, whr, ord) ==
            IF ~ord.ok THEN {Raised(ord.error)} ELSE run(sel, whr, ord)
        where(sel, whr) ==
            IF ~whr.ok THEN {Raised(whr.error)}
            ELSE orders(sel, whr, order_list(t, whr.nodes, order, <<>>))
        selected(sel) ==
            IF ~sel.ok THEN {Raised(sel.error)}
            ELSE where(sel, where_clause(t, sel.nodes, expression,
                                         convert_expression(expression)))
    IN  selected(select_list(t, NoJoins, flds, <<>>))

\* TableManager.count
count(database, t, expression) ==
    LET counted(whr) ==
            IF ~whr.ok THEN Raised(whr.error)
            ELSE Returned(Cardinality(
                     QueryEnvs(database,
                               [table |-> t, columns |-> <<Column(<<>>, t, "id")>>,
                                select_from |-> FALSE, joins |-> <<>>,
                                has_where |-> whr.has, where |-> whr.value])))
    IN  counted(where_clause(t, NoJoins, expression, convert_expression(expression)))

\* TableManager.read_and_count
read_and_count(database, t, expression, fields, order, limit, offset) ==
    LET both(cnt) ==
            IF cnt.raised # "none" THEN {cnt @@ [count |-> 0]}
            ELSE {r @@ [count |-> cnt.ret] :
                     r \in read(database, t, expression, fields, order, limit, offset)}
    IN  both(count(database, t, expression))

\* _expression with a null predicate that matches no row
expression_null_is_false(t, expression) ==
    IF expression.form = "clause" THEN Bound(expression.clause, NoJoins)
    ELSE Bound(Literal(FALSE), NoJoins)

\* TableManager._expression: the predicate of an UPDATE or a DELETE
expression_clause(t, expression) ==
    LET subselect(whr) ==
            IF ~whr.ok THEN Failed(whr.error, whr.nodes)
            ELSE Bound([kind |-> "in_select", left |-> Column(<<>>, t, "id"),
                        select |-> [table |-> t,
                                    columns |-> <<Column(<<>>, t, "id")>>,
                                    select_from |-> TRUE,
                                    joins |-> from_clause(whr.nodes),
                                    has_where |-> TRUE, where |-> whr.value]],
                       whr.nodes)
    IN  IF expression.form = "clause" THEN Bound(expression.clause, NoJoins)
        ELSE IF expression.form = "none" THEN Bound(Literal(TRUE), NoJoins)
        ELSE subselect(where_clause(t, NoJoins, expression,
                                    convert_expression(expression)))

\* the rows of t an UPDATE or DELETE with this predicate touches
Matched(database, t, clause) ==
    {r \in database[t] : EvalClause(database, clause, (<<>> :> r)) = "T"}

Wrote(error, rowcount, database) ==
    [raised |-> error, rowcount |-> rowcount, database |-> database]

\* TableManager.update
update(database, t, expression, values) ==
    LET write(hit, rows) ==
            IF ViolatesUnique(t, rows) THEN Wrote("IntegrityError", 0, database)
            ELSE Wrote("none", Cardinality(hit), [database EXCEPT ![t] = rows])
        execute(vals, hit) ==
            write(hit, (database[t] \ hit) \cup {UpdatedRow(t, r, vals) : r \in hit})
        query(vals, exp) ==
            IF \E k \in DOMAIN vals : ~HasColumn(t, k)
            THEN Wrote("AssertionError", 0, database)
            ELSE IF ~exp.ok THEN Wrote(exp.error, 0, database)
            ELSE execute(vals, Matched(database, t, exp.value))
    IN  query(OrEmpty(values), expression_clause(t, expression))

\* rowcount != len(ids)
RowcountDiffers(rowcount, ids) == rowcount # Len(ids)

\* the check update_many_by_id and delete_many_by_id make of the rowcount
check_rowcount(w, ids) ==
    IF w.raised # "none" THEN w
    ELSE IF RowcountDiffers(w.rowcount, ids)
    THEN Wrote("UnrecoverablePersistenceException", w.rowcount, w.database)
    ELSE w

\* TableManager.update_many_by_id
update_many_by_id(database, t, ids, values) ==
    check_rowcount(update(database, t, Clause(IdIn(t, ids)), values), ids)

\* TableManager.update_by_id
update_by_id(database, t, id, values) ==
    update_many_by_id(database, t, <<id>>, values)

\* TableManager.delete
delete(database, t, expression) ==
    LET execute(hit) ==
            Wrote("none", Cardinality(hit), [database EXCEPT ![t] = @ \ hit])
        query(exp) ==
            IF ~exp.ok THEN Wrote(exp.error, 0, database)
            ELSE execute(Matched(database, t, exp.value))
    IN  query(expression_clause(t, expression))

\* TableManager.delete_many_by_id
delete_many_by_id(database, t, ids) ==
    check_rowcount(delete(database, t, Clause(IdIn(t, ids))), ids)

\* TableManager.delete_by_id
delete_by_id(database, t, id) == delete_many_by_id(database, t, <<id>>)

\* TableManager.create_many; keys[k] is the primary key the driver generates
\* for the k-th INSERT
RECURSIVE create_many_loop(_, _, _, _, _)
create_many_loop(database, t, values_list, keys, created) ==
    LET insert(row) ==
            IF ViolatesUnique(t, database[t] \cup {row})
            THEN [raised |-> "IntegrityError", ret |-> <<>>, database |-> database]
            ELSE create_many_loop([database EXCEPT ![t] = @ \cup {row}], t,
                                  Tail(values_list), Tail(keys), Append(created, row.id))
        check(val) ==
            IF \E k \in DOMAIN val : ~HasColumn(t, k)
            THEN [raised |-> "AssertionError", ret |-> <<>>, database |-> database]
            ELSE insert(InsertedRow(t, Head(keys), val))
    IN  IF values_list = <<>>
        THEN [raised |-> "none", ret |-> created, database |-> database]
        ELSE check(OrEmpty(Head(values_list)))

create_many_reversed(database, t, values_list, keys) ==
    LET reversed(c) ==
            [c EXCEPT !.ret = [k \in 1..Len(c.ret) |-> c.ret[Len(c.ret) + 1 - k]]]
    IN  reversed(create_many_loop(database, t, values_list, keys, <<>>))

create_many(database, t, values_list, keys) ==
    create_many_loop(database, t, values_list, keys, <<>>)

\* TableManager.create
create(database, t, values, key) ==
    LET first(c) == IF c.raised # "none" THEN c ELSE [c EXCEPT !.ret = c.ret[1]]
    IN  first(create_many(database, t, <<values>>, <<key>>))

\* index = dict([(x["id"], x) for x in res]): a later row replaces an earlier
\* one with the same id
index_of(res) ==
    [id \in {res[i].id : i \in 1..Len(res)} |->
        res[CHOOSE i \in 1..Len(res) :
               res[i].id = id /\ \A j \in 1..Len(res) : res[j].id = id => j <= i]]

\* for el in res: del el["id"].  res holds references: refs[k] names the
\* dictionary of index that res[k] is, so an id asked twice is one object
RECURSIVE strip_ids(_, _)
strip_ids(index, refs) ==
    IF refs = <<>> THEN [raised |-> "none", index |-> index]
    ELSE LET el == index[Head(refs)]
         IN  IF "id" \notin DOMAIN el THEN [raised |-> "KeyError", index |-> index]
             ELSE strip_ids([index EXCEPT ![Head(refs)] =
                                [k \in DOMAIN el \ {"id"} |-> el[k]]],
                            Tail(refs))

\* what read_many_by_id makes of the rows read has returned
by_id_skips_missing(res, ids, hasid) ==
    LET found(index) ==
            Returned([k \in 1..Len(SelectSeq(ids, LAMBDA id : id \in DOMAIN index)) |->
                         index[SelectSeq(ids, LAMBDA id : id \in DOMAIN index)[k]]])
    IN  found(index_of(res))

by_id_result(res, ids, hasid) ==
    LET result(stripped) ==
            IF stripped.raised # "none" THEN Raised(stripped.raised)
            ELSE Returned([k \in 1..Len(ids) |-> stripped.index[ids[k]]])
        found(index) ==
            IF \E k \in 1..Len(ids) : ids[k] \notin DOMAIN index
            THEN Raised("PersistenceException")
            ELSE result(IF hasid THEN [raised |-> "none", index |-> index]
                        ELSE strip_ids(index, ids))
    IN  found(index_of(res))

\* TableManager.read_many_by_id
read_many_by_id(database, t, ids, fields) ==
    LET hasid == fields = NoFields \/ "id" \in Range(fields)
        asked == IF hasid THEN fields ELSE fields \o <<"id">>
    IN  {IF r.raised # "none" THEN r ELSE by_id_result(r.ret, ids, hasid) :
            r \in read(database, t, Clause(IdIn(t, ids)), asked, <<>>, NoInt, NoInt)}

\* TableManager.read_by_id
read_by_id(database, t, id, fields) ==
    {IF r.raised # "none" THEN r ELSE Returned(r.ret[1]) :
        r \in read_many_by_id(database, t, <<id>>, fields)}

(***************************************************************************)
(* StateTableManager: a manager of a table with a non-nullable state       *)
(* column and, optionally, a last_state_change column.  datetime.now() is  *)
(* the argument now.                                                       *)
(***************************************************************************)
\* StateTableManager.__init__: self._has_state_change
has_state_change(t) == HasColumn(t, "last_state_change")

\* dict(other_values, **values)
dict(other_values, values) ==
    [k \in DOMAIN other_values \cup DOMAIN values |->
        IF k \in DOMAIN values THEN values[k] ELSE other_values[k]]

\* dict(values, **other_values): the entries of other_values win
dict_extra_wins(t, new_state, other_values, now) ==
    LET values == IF has_state_change(t)
                  THEN [state |-> new_state, last_state_change |-> now]
                  ELSE [state |-> new_state]
    IN  [k \in DOMAIN OrEmpty(other_values) \cup DOMAIN values |->
            IF k \in DOMAIN OrEmpty(other_values) THEN OrEmpty(other_values)[k]
            ELSE values[k]]

\* the dictionary change_state hands to update
state_values(t, new_state, other_values, now) ==
    dict(OrEmpty(other_values),
         IF has_state_change(t)
         THEN [state |-> new_state, last_state_change |-> now]
         ELSE [state |-> new_state])

\* the clause of change_state without the comparison of the state
state_clause_any_state(t, exp, old_state) == exp

\* and_(self._expression(expression), self.table.c.state == old_state)
state_clause(t, exp, old_state) ==
    [kind |-> "and", left |-> exp,
     right |-> [kind |-> "binary", op |-> "==",
                left |-> Column(<<>>, t, "state"), right |-> Literal(old_state)]]

\* StateTableManager.change_state
change_state(database, t, expression, old_state, new_state, other_values, now) ==
    LET clause(exp) ==
            IF ~exp.ok THEN Wrote(exp.error, 0, database)
            ELSE update(database, t, Clause(state_clause(t, exp.value, old_state)),
                        state_values(t, new_state, other_values, now))
    IN  clause(expression_clause(t, expression))

\* StateTableManager.change_state_many_by_id
change_state_many_by_id(database, t, ids, old_state, new_state, other_values, now) ==
    check_rowcount(change_state(database, t, Clause(IdIn(t, ids)), old_state,
                                new_state, other_values, now), ids)

\* StateTableManager.change_state_by_id
change_state_by_id(database, t, id, old_state, new_state, other_values, now) ==
    change_state_many_by_id(database, t, <<id>>, old_state, new_state,
                            other_values, now)

(***************************************************************************)
(* transaction(): Asgard.transaction of application.py and transaction of  *)
(* table_manager.py are the same code.  A connection is a record; the      *)
(* driver may fail in connect, begin, commit, rollback and close.          *)
(***************************************************************************)
\* engine.connect()
NewConnection == [open |-> TRUE, current_transaction |-> "none"]

NoConnection == [open |-> FALSE, current_transaction |-> "none"]

\* assert _conn_stack.top is None
TopNotChecked(stack) == TRUE

TopIsNone(stack) == stack = <<>>

\* _conn_stack.push
Push(stack, conn) == Append(stack, conn)

\* the inner try of transaction() once the body has ended, thrown being the
\* exception the body let through ("none" when it finished): commit, or on
\* any exception rollback and raise
ScopeSwallows(thrown, commitOk, rollbackOk) ==
    IF thrown = "none" /\ commitOk
    THEN [commit_called |-> TRUE, committed |-> TRUE, rollback_called |-> FALSE,
          rolled_back |-> FALSE, propagated |-> "none"]
    ELSE [commit_called |-> thrown = "none", committed |-> FALSE,
          rollback_called |-> TRUE, rolled_back |-> rollbackOk,
          propagated |-> "none"]

ScopeCommitsAnyway(thrown, commitOk, rollbackOk) ==
    [commit_called |-> TRUE, committed |-> commitOk, rollback_called |-> FALSE,
     rolled_back |-> FALSE,
     propagated |-> IF commitOk THEN thrown ELSE "CommitError"]

Scope(thrown, commitOk, rollbackOk) ==
    IF thrown = "none" /\ commitOk
    THEN [commit_called |-> TRUE, committed |-> TRUE, rollback_called |-> FALSE,
          rolled_back |-> FALSE, propagated |-> "none"]
    ELSE [commit_called |-> thrown = "none", committed |-> FALSE,
          rollback_called |-> TRUE, rolled_back |-> rollbackOk,
          propagated |-> IF ~rollbackOk THEN "RollbackError"
                         ELSE IF thrown = "none" THEN "CommitError"
                         ELSE thrown]

\* the finally of transaction(): close, whose failure is dropped, then pop
FinallyKeepsConnection(stack, closeOk) ==
    [stack |-> stack, conn |-> [Last(stack) EXCEPT !.open = ~closeOk]]

Finally(stack, closeOk) ==
    [stack |-> Front(stack), conn |-> [Last(stack) EXCEPT !.open = ~closeOk]]

EmptyDatabase == [t \in Tables |-> {}]

\* the threads that call _compile
Workers == {1, 2}

\* QueryBuilderHelper(table)
QueryBuilderHelper(table) == [table |-> table, fk_columns |-> NoJoins]

\* no QueryBuilderHelper was made
NoHelper == QueryBuilderHelper(None)

Idle == [pc |-> "idle", expression |-> None, id |-> 0, tree |-> <<>>,
         raised |-> "none", hit |-> FALSE]

NoWorkers == [w \in Workers |-> Idle]

\* import asgard.expression
CacheImported ==
    /\ cache = lrucache(MaxCacheSize)
    /\ compiled = <<>>
    /\ workers = NoWorkers
    /\ qbh = NoHelper
    /\ columns = <<>>

NoOutcome ==
    [op |-> "none", depth_before |-> 0, thrown |-> "none", propagated |-> "none",
     commit_called |-> FALSE, committed |-> FALSE, rollback_called |-> FALSE,
     rolled_back |-> FALSE, close_called |-> FALSE, close_failed |-> FALSE,
     conn |-> NoConnection, dirty |-> FALSE]

NoCall == [op |-> "none"]

\* transaction() up to its yield
Enter(connectOk, beginOk, closeOk) ==
    /\ exc = "none"
    /\ LET entered == [NoOutcome EXCEPT !.op = "enter",
                                        !.depth_before = Len(conn_stack)]
           pushed == Push(conn_stack, NewConnection)
           fin == Finally(pushed, closeOk)
       IN  IF ~TopIsNone(conn_stack)
           THEN /\ outcome' = [entered EXCEPT !.propagated = "AssertionError"]
                /\ exc' = "AssertionError"
                /\ UNCHANGED <<conn_stack, committed, db, before_scope, last>>
           ELSE IF ~connectOk
           THEN /\ outcome' = [entered EXCEPT !.propagated = "ConnectError"]
                /\ UNCHANGED <<conn_stack, committed, db, before_scope, exc, last>>
           ELSE IF ~beginOk
           THEN /\ outcome' = [entered EXCEPT !.propagated = "BeginError",
                                              !.close_called = TRUE,
                                              !.close_failed = ~closeOk,
                                              !.conn = fin.conn]
                /\ conn_stack' = fin.stack
                /\ exc' = IF fin.stack = <<>> THEN "none" ELSE "BeginError"
                /\ UNCHANGED <<committed, db, before_scope, last>>
           ELSE /\ outcome' = entered
                /\ conn_stack' = Push(conn_stack,
                                      [NewConnection EXCEPT !.current_transaction = "active"])
                /\ before_scope' = committed
                /\ UNCHANGED <<committed, db, exc, last>>
    /\ UNCHANGED expression_vars

\* transaction() after its yield: the body has finished (exc = "none") or
\* has let the exception exc through
Exit(commitOk, rollbackOk, closeOk) ==
    /\ conn_stack # <<>>
    /\ LET r == Scope(exc, commitOk, rollbackOk)
           ended == [conn_stack EXCEPT ![Len(conn_stack)].current_transaction =
                        IF r.committed THEN "committed"
                        ELSE IF r.rolled_back THEN "rolledback" ELSE @]
           fin == Finally(ended, closeOk)
       IN  /\ outcome' = [op |-> "exit", depth_before |-> Len(conn_stack),
                          thrown |-> exc, propagated |-> r.propagated,
                          commit_called |-> r.commit_called,
                          committed |-> r.committed,
                          rollback_called |-> r.rollback_called,
                          rolled_back |-> r.rolled_back,
                          close_called |-> TRUE, close_failed |-> ~closeOk,
                          conn |-> fin.conn, dirty |-> db # committed]
           /\ conn_stack' = fin.stack
           /\ committed' = IF r.committed THEN db ELSE committed
           /\ db' = IF r.committed THEN db ELSE committed
           /\ exc' = IF fin.stack = <<>> THEN "none" ELSE r.propagated
           /\ UNCHANGED <<before_scope, last>>
    /\ UNCHANGED expression_vars

(***************************************************************************)
(* Spec: the body of a scope creates, updates and deletes rows of          *)
(* test_table through the TableManager, raises, or catches what was raised.*)
(***************************************************************************)
BodyValues == {[key |-> "a", value |-> "b"]}

BodyChanges == {[value |-> "c"]}

InBody == conn_stack # <<>> /\ exc = "none"

\* id is the primary key the driver generates
BodyCreate(values, id) ==
    /\ InBody
    /\ id \notin IdsOf(db["test_table"])
    /\ \E c \in {create(db, "test_table", values, id)} :
           /\ db' = c.database
           /\ exc' = c.raised
           /\ last' = [op |-> "create", raised |-> c.raised, rowcount |-> 1]
    /\ UNCHANGED <<conn_stack, committed, before_scope, outcome>>
    /\ UNCHANGED expression_vars

BodyUpdateManyById(ids, values) ==
    /\ InBody
    /\ \E u \in {update_many_by_id(db, "test_table", ids, values)} :
           /\ db' = u.database
           /\ exc' = u.raised
           /\ last' = [op |-> "update_many_by_id", raised |-> u.raised,
                       rowcount |-> u.rowcount]
    /\ UNCHANGED <<conn_stack, committed, before_scope, outcome>>
    /\ UNCHANGED expression_vars

BodyDeleteManyById(ids) ==
    /\ InBody
    /\ \E d \in {delete_many_by_id(db, "test_table", ids)} :
           /\ db' = d.database
           /\ exc' = d.raised
           /\ last' = [op |-> "delete_many_by_id", raised |-> d.raised,
                       rowcount |-> d.rowcount]
    /\ UNCHANGED <<conn_stack, committed, before_scope, outcome>>
    /\ UNCHANGED expression_vars

\* the body raises an exception of its own
BodyRaise ==
    /\ InBody
    /\ exc' = "BodyError"
    /\ UNCHANGED <<conn_stack, committed, db, before_scope, outcome, last>>
    /\ UNCHANGED expression_vars

\* the body catches the exception before it reaches the scope
BodyCatch ==
    /\ conn_stack # <<>>
    /\ exc # "none"
    /\ exc' = "none"
    /\ UNCHANGED <<conn_stack, committed, db, before_scope, outcome, last>>
    /\ UNCHANGED expression_vars

Init ==
    /\ conn_stack = <<>>
    /\ committed = EmptyDatabase
    /\ db = EmptyDatabase
    /\ before_scope = EmptyDatabase
    /\ exc = "none"
    /\ outcome = NoOutcome
    /\ last = NoCall
    /\ CacheImported

Next ==
    \/ \E connectOk, beginOk, closeOk \in BOOLEAN : Enter(connectOk, beginOk, closeOk)
    \/ \E commitOk, rollbackOk, closeOk \in BOOLEAN : Exit(commitOk, rollbackOk, closeOk)
    \/ \E values \in BodyValues, id \in Ids : BodyCreate(values, id)
    \/ \E ids \in SeqUpTo(Ids, MaxIds), values \in BodyChanges :
          BodyUpdateManyById(ids, values)
    \/ \E ids \in SeqUpTo(Ids, MaxIds) : BodyDeleteManyById(ids)
    \/ BodyRaise
    \/ BodyCatch

Spec == Init /\ [][Next]_vars

(***************************************************************************)
(* SpecTable: the facade calls of TestTableManager on test_table inside    *)
(* the transaction DbTest.setUp has opened.  The caller catches what a     *)
(* call raises; last keeps the call, the table before it and its result    *)
(* until the caller goes on.                                               *)
(***************************************************************************)
CreateValues == {[key |-> "a", value |-> "b"], [key |-> "b", value |-> "c"], NoValues}

UpdateValues == {[value |-> "c"]}

ReadFields == {NoFields, <<"key">>, <<"id", "value">>}

\* the predicates given to update, delete, read and count of test_table
TableExpressions == {NoExpression, Fql("key == 'a'")}

OpenConnection == [NewConnection EXCEPT !.current_transaction = "active"]

\* values and ret are lists: the dictionaries given, and the list a call
\* returns or the one value it returns
Call(op, ids, fields, values, before, raised, ret, rowcount) ==
    [op |-> op, ids |-> ids, fields |-> fields, values |-> values,
     before |-> before, raised |-> raised, ret |-> ret, rowcount |-> rowcount,
     expression |-> NoExpression, count |-> 0]

\* a call that takes a predicate
Asked(call, expression, n) == [call EXCEPT !.expression = expression, !.count = n]

One(r) == IF r.raised = "none" THEN <<r.ret>> ELSE <<>>

\* sequences of distinct primary keys the table does not hold yet
FreshKeys(rows, n) ==
    {keys \in [1..n -> Ids \ IdsOf(rows)] :
        \A i, j \in 1..n : i # j => keys[i] # keys[j]}

\* the caller is between two calls
Ready == last = NoCall

\* the driver generates the primary keys
CreateMany(values_list) ==
    /\ Ready
    /\ \E keys \in FreshKeys(db["test_table"], Len(values_list)) :
          \E c \in {create_many(db, "test_table", values_list, keys)} :
             /\ db' = c.database
             /\ last' = Call("create_many", <<>>, NoFields, values_list,
                             db["test_table"], c.raised, c.ret, 0)
    /\ UNCHANGED <<conn_stack, committed, before_scope, exc, outcome>>
    /\ UNCHANGED expression_vars

Create(values) ==
    /\ Ready
    /\ \E id \in Ids \ IdsOf(db["test_table"]) :
          \E c \in {create(db, "test_table", values, id)} :
             /\ db' = c.database
             /\ last' = Call("create", <<>>, NoFields, <<values>>,
                             db["test_table"], c.raised, One(c), 0)
    /\ UNCHANGED <<conn_stack, committed, before_scope, exc, outcome>>
    /\ UNCHANGED expression_vars

ReadManyById(ids, fields) ==
    /\ Ready
    /\ \E r \in read_many_by_id(db, "test_table", ids, fields) :
           last' = Call("read_many_by_id", ids, fields, <<>>,
                        db["test_table"], r.raised, r.ret, 0)
    /\ UNCHANGED <<conn_stack, committed, db, before_scope, exc, outcome>>
    /\ UNCHANGED expression_vars

ReadById(id, fields) ==
    /\ Ready
    /\ \E r \in read_by_id(db, "test_table", id, fields) :
           last' = Call("read_by_id", <<id>>, fields, <<>>,
                        db["test_table"], r.raised, One(r), 0)
    /\ UNCHANGED <<conn_stack, committed, db, before_scope, exc, outcome>>
    /\ UNCHANGED expression_vars

UpdateManyById(ids, values) ==
    /\ Ready
    /\ \E u \in {update_many_by_id(db, "test_table", ids, values)} :
           /\ db' = u.database
           /\ last' = Call("update_many_by_id", ids, NoFields, <<values>>,
                           db["test_table"], u.raised, <<>>, u.rowcount)
    /\ UNCHANGED <<conn_stack, committed, before_scope, exc, outcome>>
    /\ UNCHANGED expression_vars

UpdateById(id, values) ==
    /\ Ready
    /\ \E u \in {update_by_id(db, "test_table", id, values)} :
           /\ db' = u.database
           /\ last' = Call("update_by_id", <<id>>, NoFields, <<values>>,
                           db["test_table"], u.raised, <<>>, u.rowcount)
    /\ UNCHANGED <<conn_stack, committed, before_scope, exc, outcome>>
    /\ UNCHANGED expression_vars

DeleteManyById(ids) ==
    /\ Ready
    /\ \E d \in {delete_many_by_id(db, "test_table", ids)} :
           /\ db' = d.database
           /\ last' = Call("delete_many_by_id", ids, NoFields, <<>>,
                           db["test_table"], d.raised, <<>>, d.rowcount)
    /\ UNCHANGED <<conn_stack, committed, before_scope, exc, outcome>>
    /\ UNCHANGED expression_vars

DeleteById(id) ==
    /\ Ready
    /\ \E d \in {delete_by_id(db, "test_table", id)} :
           /\ db' = d.database
           /\ last' = Call("delete_by_id", <<id>>, NoFields, <<>>,
                           db["test_table"], d.raised, <<>>, d.rowcount)
    /\ UNCHANGED <<conn_stack, committed, before_scope, exc, outcome>>
    /\ UNCHANGED expression_vars

\* the caller has taken the result and goes on to its next call
Update(expression, values) ==
    /\ Ready
    /\ \E u \in {update(db, "test_table", expression, values)} :
           /\ db' = u.database
           /\ last' = Asked(Call("update", <<>>, NoFields, <<values>>,
                                 db["test_table"], u.raised, <<>>, u.rowcount),
                            expression, 0)
    /\ UNCHANGED <<conn_stack, committed, before_scope, exc, outcome>>
    /\ UNCHANGED expression_vars

Delete(expression) ==
    /\ Ready
    /\ \E d \in {delete(db, "test_table", expression)} :
           /\ db' = d.database
           /\ last' = Asked(Call("delete", <<>>, NoFields, <<>>,
                                 db["test_table"], d.raised, <<>>, d.rowcount),
                            expression, 0)
    /\ UNCHANGED <<conn_stack, committed, before_scope, exc, outcome>>
    /\ UNCHANGED expression_vars

TableRead(expression, fields) ==
    /\ Ready
    /\ \E r \in read(db, "test_table", expression, fields, <<>>, NoInt, NoInt) :
           last' = Asked(Call("read", <<>>, fields, <<>>,
                              db["test_table"], r.raised, r.ret, 0),
                         expression, 0)
    /\ UNCHANGED <<conn_stack, committed, db, before_scope, exc, outcome>>
    /\ UNCHANGED expression_vars

TableCount(expression) ==
    /\ Ready
    /\ \E c \in {count(db, "test_table", expression)} :
           last' = Asked(Call("count", <<>>, NoFields, <<>>,
                              db["test_table"], c.raised, <<>>, 0),
                         expression, IF c.raised = "none" THEN c.ret ELSE 0)
    /\ UNCHANGED <<conn_stack, committed, db, before_scope, exc, outcome>>
    /\ UNCHANGED expression_vars

Continue ==
    /\ ~Ready
    /\ last' = NoCall
    /\ UNCHANGED <<conn_stack, committed, db, before_scope, exc, outcome>>
    /\ UNCHANGED expression_vars

InitTable ==
    /\ conn_stack = <<OpenConnection>>
    /\ committed = EmptyDatabase
    /\ db = EmptyDatabase
    /\ before_scope = EmptyDatabase
    /\ exc = "none"
    /\ outcome = [NoOutcome EXCEPT !.op = "enter"]
    /\ last = NoCall
    /\ CacheImported

NextTable ==
    \/ \E values_list \in SeqUpTo(CreateValues, MaxCreate) : CreateMany(values_list)
    \/ \E values \in CreateValues : Create(values)
    \/ \E ids \in SeqUpTo(Ids, MaxIds), fields \in ReadFields : ReadManyById(ids, fields)
    \/ \E id \in Ids, fields \in ReadFields : ReadById(id, fields)
    \/ \E ids \in SeqUpTo(Ids, MaxIds), values \in UpdateValues :
          UpdateManyById(ids, values)
    \/ \E id \in Ids, values \in UpdateValues : UpdateById(id, values)
    \/ \E ids \in SeqUpTo(Ids, MaxIds) : DeleteManyById(ids)
    \/ \E id \in Ids : DeleteById(id)
    \/ \E expression \in TableExpressions, values \in UpdateValues :
          Update(expression, values)
    \/ \E expression \in TableExpressions : Delete(expression)
    \/ \E expression \in TableExpressions, fields \in ReadFields :
          TableRead(expression, fields)
    \/ \E expression \in TableExpressions : TableCount(expression)
    \/ Continue

SpecTable == InitTable /\ [][NextTable]_vars

(***************************************************************************)
(* SpecCount: read, count and read_and_count of the manager of test_table3,*)
(* whose column table2 is a foreign key to test_table2, over every small   *)
(* content of the two tables.  The queries change no table, so each        *)
(* content is asked one query.                                             *)
(***************************************************************************)
\* the key of the row of test_table3 with this id
Table3Key(id) == CASE id = 1 -> "a" [] id = 2 -> "d" [] OTHER -> "g"

\* the contents of test_table2: keys are unique
Table2s ==
    {t2 \in {{[id |-> i, key |-> f[i], value |-> "x"] : i \in {j \in Ids : f[j] # None}} :
                f \in [Ids -> {None, "a", "b"}]} :
        ~ViolatesUnique("test_table2", t2)}

\* the contents of test_table3 over t2: table2 is NULL or the id of a row of t2
Table3s(t2) ==
    {{[id |-> i, key |-> Table3Key(i), table2 |-> g[i]] : i \in {j \in Ids : g[j] >= 0}} :
        g \in [Ids -> {-1, 0} \cup IdsOf(t2)]}

CountDatabases ==
    {[EmptyDatabase EXCEPT !["test_table2"] = d[1], !["test_table3"] = d[2]] :
        d \in {e \in Table2s \X UNION {Table3s(t2) : t2 \in Table2s} :
                  e[2] \in Table3s(e[1])}}

CountExpressions ==
    {NoExpression, Clause(IdIn("test_table3", <<1>>)),
     FqlPair("key == :v", [v |-> "a"])} \cup {Fql(source) : source \in Sources}

CountFields == {NoFields, <<"key", "table2.key">>}

CountOrders == {<<>>, <<[name |-> "key", direction |-> "desc"]>>}

CountLimits == {NoInt, <<0>>, <<1>>, <<-1>>}

CountOffsets == {NoInt, <<1>>, <<-1>>}

Query(op, expression, fields, order, limit, offset, raised, ret, n) ==
    [op |-> op, expression |-> expression, fields |-> fields, order |-> order,
     limit |-> limit, offset |-> offset, clauses |-> paging(limit, offset),
     raised |-> raised, ret |-> ret, count |-> n]

Count(expression) ==
    /\ Ready
    /\ \E c \in {count(db, "test_table3", expression)} :
           last' = Query("count", expression, NoFields, <<>>, NoInt, NoInt,
                         c.raised, <<>>, IF c.raised = "none" THEN c.ret ELSE 0)
    /\ UNCHANGED <<conn_stack, committed, db, before_scope, exc, outcome>>
    /\ UNCHANGED expression_vars

Read(expression, fields, order, limit, offset) ==
    /\ Ready
    /\ \E r \in read(db, "test_table3", expression, fields, order, limit, offset) :
           last' = Query("read", expression, fields, order, limit, offset,
                         r.raised, r.ret, 0)
    /\ UNCHANGED <<conn_stack, committed, db, before_scope, exc, outcome>>
    /\ UNCHANGED expression_vars

ReadAndCount(expression, fields, order, limit, offset) ==
    /\ Ready
    /\ \E r \in read_and_count(db, "test_table3", expression, fields, order,
                               limit, offset) :
           last' = Query("read_and_count", expression, fields, order, limit, offset,
                         r.raised, r.ret, r.count)
    /\ UNCHANGED <<conn_stack, committed, db, before_scope, exc, outcome>>
    /\ UNCHANGED expression_vars

InitCount ==
    /\ conn_stack = <<OpenConnection>>
    /\ committed = EmptyDatabase
    /\ db \in CountDatabases
    /\ before_scope = EmptyDatabase
    /\ exc = "none"
    /\ outcome = [NoOutcome EXCEPT !.op = "enter"]
    /\ last = NoCall
    /\ CacheImported

NextCount ==
    \/ \E expression \in CountExpressions : Count(expression)
    \/ \E expression \in CountExpressions, fields \in CountFields,
          order \in CountOrders, limit \in CountLimits, offset \in CountOffsets :
          Read(expression, fields, order, limit, offset)
    \/ \E expression \in CountExpressions, fields \in CountFields,
          order \in CountOrders, limit \in CountLimits, offset \in CountOffsets :
          ReadAndCount(expression, fields, order, limit, offset)

SpecCount == InitCount /\ [][NextCount]_vars

(***************************************************************************)
(* SpecState: change_state and change_state_by_id of the managers of       *)
(* state_table and stamped_table, over every small content of the tables.  *)
(***************************************************************************)
States == {"new", "done"}

StateTables == {"state_table", "stamped_table"}

\* the values datetime.datetime.now() returns; the rows start with stamp 1
Times == {2, 3}

\* the rows of a state table: the row with id i is absent or in a state
StateRows(t) ==
    {{[c \in ColumnSet(t) |->
          CASE c = "id" -> i [] c = "key" -> Table3Key(i)
            [] c = "state" -> f[i] [] c = "last_state_change" -> 1] :
        i \in {j \in Ids : f[j] # None}} :
     f \in [Ids -> States \cup {None}]}

StateExpressions(t) == {NoExpression, Clause(IdIn(t, <<1>>)), Fql("key == 'a'")}

ExtraValues == {NoValues, [state |-> "new"], [key |-> "z"]}

StateCall(op, t, expression, ids, old_state, new_state, other_values, now, w) ==
    [op |-> op, table |-> t, expression |-> expression, ids |-> ids,
     old_state |-> old_state, new_state |-> new_state,
     other_values |-> other_values, now |-> now,
     values |-> state_values(t, new_state, other_values, now),
     before |-> db, raised |-> w.raised, rowcount |-> w.rowcount]

ChangeState(t, expression, old_state, new_state, other_values, now) ==
    /\ Ready
    /\ \E w \in {change_state(db, t, expression, old_state, new_state,
                               other_values, now)} :
           /\ db' = w.database
           /\ last' = StateCall("change_state", t, expression, <<>>, old_state,
                                new_state, other_values, now, w)
    /\ UNCHANGED <<conn_stack, committed, before_scope, exc, outcome>>
    /\ UNCHANGED expression_vars

ChangeStateById(t, id, old_state, new_state, other_values, now) ==
    /\ Ready
    /\ \E w \in {change_state_by_id(db, t, id, old_state, new_state,
                                     other_values, now)} :
           /\ db' = w.database
           /\ last' = StateCall("change_state_by_id", t, NoExpression, <<id>>,
                                old_state, new_state, other_values, now, w)
    /\ UNCHANGED <<conn_stack, committed, before_scope, exc, outcome>>
    /\ UNCHANGED expression_vars

InitState ==
    /\ conn_stack = <<OpenConnection>>
    /\ committed = EmptyDatabase
    /\ \E t \in StateTables : \E rows \in StateRows(t) :
           db = [EmptyDatabase EXCEPT ![t] = rows]
    /\ before_scope = EmptyDatabase
    /\ exc = "none"
    /\ outcome = [NoOutcome EXCEPT !.op = "enter"]
    /\ last = NoCall
    /\ CacheImported

NextState ==
    \/ \E t \in StateTables, old_state, new_state \in States,
          other_values \in ExtraValues, now \in Times :
          \E expression \in StateExpressions(t) :
             ChangeState(t, expression, old_state, new_state, other_values, now)
    \/ \E t \in StateTables, id \in Ids, old_state, new_state \in States,
          other_values \in ExtraValues, now \in Times :
          ChangeStateById(t, id, old_state, new_state, other_values, now)

SpecState == InitState /\ [][NextState]_vars

(***************************************************************************)
(* SpecCache: one thread calls _compile, directly and through              *)
(* where_clause of a QueryBuilderHelper of test_table3, on a cache built   *)
(* with a capacity of 0..MaxCacheSize.                                     *)
(***************************************************************************)
CacheSizes == 0..MaxCacheSize

\* three texts of the grammar and one that is no expression
CacheSources == {"key == 'a'", "key == :v", "table2.key == 'a'", "key =="}

CompileCall(op, expression, r, bound) ==
    [op |-> op, source |-> expression, raised |-> r.raised, tree |-> r.tree,
     hit |-> r.hit, parsed |-> r.parsed, held |-> DOMAIN cache.table,
     after |-> DOMAIN r.cache.table, bound |-> bound]

Compile(expression) ==
    /\ Len(compiled) < MaxCompiles
    /\ \E r \in {cached_compile(cache, expression)} :
           /\ cache' = r.cache
           /\ compiled' = Append(compiled, CompileCall("compile", expression, r, FALSE))
    /\ UNCHANGED <<conn_stack, committed, db, before_scope, exc, outcome, last, workers,
                   qbh, columns>>

\* QueryBuilderHelper(test_table3).where_clause(expression, {"v": "a"})
WhereClause(expression) ==
    /\ Len(compiled) < MaxCompiles
    /\ \E r \in {cached_compile(cache, expression)} :
           /\ cache' = r.cache
           /\ compiled' =
                  Append(compiled,
                         CompileCall("where_clause", expression, r,
                                     /\ r.raised = "none"
                                     /\ walk("test_table3", NoJoins, [v |-> "a"], r.tree).ok))
    /\ UNCHANGED <<conn_stack, committed, db, before_scope, exc, outcome, last, workers,
                   qbh, columns>>

InitCache ==
    /\ qbh = NoHelper
    /\ columns = <<>>
    /\ conn_stack = <<>>
    /\ committed = EmptyDatabase
    /\ db = EmptyDatabase
    /\ before_scope = EmptyDatabase
    /\ exc = "none"
    /\ outcome = NoOutcome
    /\ last = NoCall
    /\ \E size \in CacheSizes : cache = lrucache(size)
    /\ compiled = <<>>
    /\ workers = NoWorkers

NextCache ==
    \/ \E expression \in CacheSources : Compile(expression)
    \/ \E expression \in CacheSources : WhereClause(expression)

SpecCache == InitCache /\ [][NextCache]_vars

(***************************************************************************)
(* SpecWorkers: the threads of Workers call _compile on the one cache of   *)
(* the module.  _compile takes no lock, so a thread can be suspended       *)
(* between two statements of __getitem__ or __setitem__; the steps below   *)
(* are the statements at which the model lets the threads interleave.      *)
(***************************************************************************)
WorkerSources == {"key == 'a'", "key == :v", "key =="}

\* a thread enters _compile(expression)
CallCompile(w, expression) ==
    /\ workers[w].pc = "idle"
    /\ Len(compiled) + Cardinality({v \in Workers : workers[v].pc # "idle"}) < MaxCompiles
    /\ workers' = [workers EXCEPT ![w] = [Idle EXCEPT !.pc = "lookup",
                                                      !.expression = expression]]
    /\ UNCHANGED <<conn_stack, committed, db, before_scope, exc, outcome, last,
                   cache, compiled, qbh, columns>>

\* __getitem__: node = self.table[key]
Lookup(w) ==
    /\ workers[w].pc = "lookup"
    /\ workers' = [workers EXCEPT ![w] =
                      IF workers[w].expression \in DOMAIN cache.table
                      THEN [@ EXCEPT !.pc = "mtf", !.id = cache.table[workers[w].expression]]
                      ELSE [@ EXCEPT !.pc = "parse"]]
    /\ UNCHANGED <<conn_stack, committed, db, before_scope, exc, outcome, last,
                   cache, compiled, qbh, columns>>

\* __getitem__: self.mtf(node); self.head = node; return node.value
MoveToFront(w) ==
    /\ workers[w].pc = "mtf"
    /\ \E g \in {getitem_node(cache, workers[w].id)} :
           /\ cache' = g.cache
           /\ workers' = [workers EXCEPT ![w] = [@ EXCEPT !.pc = "return",
                                                          !.tree = g.value,
                                                          !.hit = TRUE]]
    /\ UNCHANGED <<conn_stack, committed, db, before_scope, exc, outcome, last, compiled,
                   qbh, columns>>

\* tree = _parser.parseString(expression)[0]
Parse(w) ==
    /\ workers[w].pc = "parse"
    /\ workers' = [workers EXCEPT ![w] =
                      IF Parses(workers[w].expression)
                      THEN [@ EXCEPT !.pc = "store", !.tree = parseString(workers[w].expression)]
                      ELSE [@ EXCEPT !.pc = "return", !.raised = "ParseException"]]
    /\ UNCHANGED <<conn_stack, committed, db, before_scope, exc, outcome, last,
                   cache, compiled, qbh, columns>>

\* __setitem__: if key in self.table: node = self.table[key]
\*              else: node = self.head.prev
Store(w) ==
    /\ workers[w].pc = "store"
    /\ workers' = [workers EXCEPT ![w] =
                      IF workers[w].expression \in DOMAIN cache.table
                      THEN [@ EXCEPT !.pc = "update", !.id = cache.table[workers[w].expression]]
                      ELSE [@ EXCEPT !.pc = "fill", !.id = Last(cache.list)]]
    /\ UNCHANGED <<conn_stack, committed, db, before_scope, exc, outcome, last,
                   cache, compiled, qbh, columns>>

\* __setitem__, key in self.table: node.value = value; self.mtf(node)
UpdateNode(w) ==
    /\ workers[w].pc = "update"
    /\ \E u \in {setitem_update(cache, workers[w].id, workers[w].tree)} :
           /\ cache' = u.cache
           /\ workers' = [workers EXCEPT ![w] = [@ EXCEPT !.pc = "return"]]
    /\ UNCHANGED <<conn_stack, committed, db, before_scope, exc, outcome, last, compiled,
                   qbh, columns>>

\* __setitem__, new key: del self.table[node.key]; node.key = key;
\* node.value = value; self.table[key] = node; self.head = node
FillNode(w) ==
    /\ workers[w].pc = "fill"
    /\ \E f \in {setitem_node(cache, workers[w].id, workers[w].expression,
                               workers[w].tree)} :
           /\ cache' = f.cache
           /\ workers' = [workers EXCEPT ![w] = [@ EXCEPT !.pc = "return",
                                                          !.raised = f.raised]]
    /\ UNCHANGED <<conn_stack, committed, db, before_scope, exc, outcome, last, compiled,
                   qbh, columns>>

\* _compile returns or raises
Return(w) ==
    /\ workers[w].pc = "return"
    /\ compiled' = Append(compiled,
                          CompileCall("compile", workers[w].expression,
                                      Compiled(workers[w].raised, workers[w].tree,
                                               workers[w].hit, ~workers[w].hit, cache),
                                      FALSE))
    /\ workers' = [workers EXCEPT ![w] = Idle]
    /\ UNCHANGED <<conn_stack, committed, db, before_scope, exc, outcome, last, cache,
                   qbh, columns>>

InitWorkers ==
    /\ qbh = NoHelper
    /\ columns = <<>>
    /\ conn_stack = <<>>
    /\ committed = EmptyDatabase
    /\ db = EmptyDatabase
    /\ before_scope = EmptyDatabase
    /\ exc = "none"
    /\ outcome = NoOutcome
    /\ last = NoCall
    /\ \E size \in 1..MaxCacheSize : cache = lrucache(size)
    /\ compiled = <<>>
    /\ workers = NoWorkers

NextWorkers ==
    \/ \E w \in Workers, expression \in WorkerSources : CallCompile(w, expression)
    \/ \E w \in Workers : Lookup(w)
    \/ \E w \in Workers : MoveToFront(w)
    \/ \E w \in Workers : Parse(w)
    \/ \E w \in Workers : Store(w)
    \/ \E w \in Workers : UpdateNode(w)
    \/ \E w \in Workers : FillNode(w)
    \/ \E w \in Workers : Return(w)

SpecWorkers == InitWorkers /\ [][NextWorkers]_vars

(***************************************************************************)
(* SpecColumn: column() is called up to MaxColumns times on one            *)
(* QueryBuilderHelper of test_table3 or of test_table4, whose columns      *)
(* table3 and other3 lead to test_table3, pair carries two foreign keys    *)
(* and bykey leads to test_table2.key.                                     *)
(***************************************************************************)
ColumnPaths(t) ==
    IF t = "test_table3"
    THEN {"key", "nokey", "keys", "table2.key", "table2.id", "table2.keys"}
    ELSE {"key", "id", "nokey", "keys", "table3.key", "table3.id", "table3.value",
          "other3.key", "table3.table2.key", "table3.table2.id", "other3.table2.key",
          "key.key", "id.key", "pair.key", "bykey.key", "keys.key"}

\* the aliases of the foreign-key steps of vals that are in the tree
AliasesOf(nodes, vals) ==
    [k \in {j \in 1..(Len(vals) - 1) : SubSeq(vals, 1, j) \in DOMAIN nodes} |->
        nodes[SubSeq(vals, 1, k)].alias]

ColumnCall(val) ==
    /\ qbh.table # None
    /\ last = NoCall
    /\ val \in ColumnPaths(qbh.table)
    /\ Len(columns) < MaxColumns
    /\ \E r \in {column(qbh.table, qbh.fk_columns, val)} :
           /\ qbh' = [qbh EXCEPT !.fk_columns = r.nodes]
           /\ columns' = Append(columns,
                                [val |-> val, raised |-> r.error, value |-> r.value,
                                 before |-> qbh.fk_columns, after |-> r.nodes,
                                 aliases |-> AliasesOf(r.nodes, split(val))])
    /\ UNCHANGED <<conn_stack, committed, db, before_scope, exc, outcome, last,
                   cache, compiled, workers>>

InitColumn ==
    /\ conn_stack = <<>>
    /\ committed = EmptyDatabase
    /\ db = EmptyDatabase
    /\ before_scope = EmptyDatabase
    /\ exc = "none"
    /\ outcome = NoOutcome
    /\ last = NoCall
    /\ cache = lrucache(MaxCacheSize)
    /\ compiled = <<>>
    /\ workers = NoWorkers
    /\ \E t \in {"test_table3", "test_table4"} : qbh = QueryBuilderHelper(t)
    /\ columns = <<>>

\* qbh.from_clause(), called once the columns of the query are resolved
FromClause ==
    /\ qbh.table # None
    /\ last = NoCall
    /\ last' = [op |-> "from_clause", table |-> qbh.table,
                nodes |-> qbh.fk_columns, joins |-> from_clause(qbh.fk_columns)]
    /\ UNCHANGED <<conn_stack, committed, db, before_scope, exc, outcome,
                   cache, compiled, workers, qbh, columns>>

\* the next query gets a QueryBuilderHelper of its own
NewHelper(t) ==
    /\ columns # <<>> \/ last # NoCall
    /\ qbh' = QueryBuilderHelper(t)
    /\ columns' = <<>>
    /\ last' = NoCall
    /\ UNCHANGED <<conn_stack, committed, db, before_scope, exc, outcome,
                   cache, compiled, workers>>

NextColumn ==
    \/ \E val \in ColumnPaths("test_table3") \cup ColumnPaths("test_table4") :
          ColumnCall(val)
    \/ FromClause
    \/ \E t \in {"test_table3", "test_table4"} : NewHelper(t)

SpecColumn == InitColumn /\ [][NextColumn]_vars

(***************************************************************************)
(* SpecParser: _parser.parseString is applied to a source text: every      *)
(* text of up to MaxLexemes lexemes of Lexemes, the texts a op b op c of   *)
(* two binary operators, with a unary operator before an operand and with  *)
(* a parenthesis around either pair, and the chains of up to MaxChain      *)
(* operators of one level.                                                 *)
(***************************************************************************)
MaxLexemes == 3

MaxChain == 3

Lexemes == {"a", "1", ":v", "true", "null", "and", "not", "in", "like",
            "==", "+", "*", "(", ")", "[", "]", ",", "."}

\* texts with lists, variables, null and strings
ListSources ==
    {<<"a", "in", "[", "1", ",", "2", "]">>, <<"[", "1", ",", "]">>,
     <<"[", "a", "==", "1", ",", "null", "]">>, <<"a", "in", "[", "[", "1", "]", "]">>,
     <<"a", "like", "'a'">>, <<"a", "==", ":v">>, <<":v", "in", "[", ":w", "]">>,
     <<"a", ".", "b", ".", "c", "!=", "'b'">>, <<"a", "==", "false">>}

UnaryOperators == Operators[1] \cup Operators[2]

BinaryOperators == UNION {Operators[n] : n \in 3..Len(Operators)}

ChainOperands == <<"a", "b", "c", "key", "value", "table2">>

\* a op b op c ... with the operators of ops
Chain(ops) ==
    [i \in 1..(2 * Len(ops) + 1) |->
        IF i % 2 = 1 THEN ChainOperands[(i + 1) \div 2] ELSE ops[i \div 2]]

ParserSources ==
    SeqUpTo(Lexemes, MaxLexemes)
    \cup ListSources
    \cup {Chain(<<o1, o2>>) : o1 \in BinaryOperators, o2 \in BinaryOperators}
    \cup {<<u, "a", o, "b">> : u \in UnaryOperators, o \in BinaryOperators}
    \cup {<<"a", o, u, "b">> : u \in UnaryOperators, o \in BinaryOperators}
    \cup {<<"(", "a", o1, "b", ")", o2, "c">> :
             o1 \in BinaryOperators, o2 \in BinaryOperators}
    \cup {<<"a", o1, "(", "b", o2, "c", ")">> :
             o1 \in BinaryOperators, o2 \in BinaryOperators}
    \cup UNION {{Chain(ops) : ops \in SeqUpTo(Operators[n], MaxChain) \ {<<>>}} :
                   n \in 3..Len(Operators)}

\* the caller holds a source text
Text(toks) == [op |-> "text", source |-> toks, raised |-> "none", tree |-> <<>>]

ParseString ==
    /\ last.op = "text"
    /\ \E r \in {program(last.source)} :
           last' = [op |-> "parseString", source |-> last.source,
                    raised |-> r.raised, tree |-> r.tree]
    /\ UNCHANGED <<conn_stack, committed, db, before_scope, exc, outcome>>
    /\ UNCHANGED expression_vars

InitParser ==
    /\ conn_stack = <<>>
    /\ committed = EmptyDatabase
    /\ db = EmptyDatabase
    /\ before_scope = EmptyDatabase
    /\ exc = "none"
    /\ outcome = NoOutcome
    /\ \E toks \in ParserSources : last = Text(toks)
    /\ CacheImported

NextParser == ParseString

SpecParser == InitParser /\ [][NextParser]_vars

(***************************************************************************)
(* SpecBind: where_clause is called on a QueryBuilderHelper of test_table3 *)
(* with a source text and a dictionary of values.  The texts are an        *)
(* operand, a unary operator and an operand, two operands and a binary     *)
(* operator, and an in, like or ilike inside not, and, or and a list.  The *)
(* operands of and and or are predicates, < has a column on one side and   *)
(* the right operand of in is a list.                                      *)
(***************************************************************************)
BindColumns == {<<"key">>, <<"table2", ".", "key">>, <<"(", "key", "+", "'a'", ")">>}

BindPythons == {<<"1">>, <<"'a'">>, <<":v">>, <<"null">>, <<"true">>,
                <<"(", "1", "+", "2", ")">>}

BindLists == {<<"[", "1", "]">>, <<"[", ":v", ",", "2", "]">>}

\* a name that is no column of test_table3 and a variable that has no value
BindUnknown == {<<"a">>, <<":w">>}

BindOperands == BindColumns \cup BindPythons \cup BindLists \cup BindUnknown

BindPredicates ==
    {x \o <<"in">> \o y : x \in BindOperands, y \in BindLists}
    \cup {x \o <<o>> \o y : x \in BindOperands, y \in BindOperands, o \in {"like", "ilike"}}

BindSources ==
    BindOperands
    \cup {<<u>> \o x : u \in UnaryOperators, x \in BindOperands}
    \cup {x \o <<o>> \o y : x \in BindOperands, y \in BindOperands,
                           o \in {"==", "!=", "+", "-", "*"}}
    \cup {x \o <<"<">> \o y : x \in BindColumns, y \in BindOperands}
    \cup {x \o <<"<">> \o y : x \in BindOperands, y \in BindColumns}
    \cup BindPredicates
    \cup {<<"not", "(">> \o p \o <<")">> : p \in BindPredicates}
    \cup {<<"key", "==", "'a'", "and", "(">> \o p \o <<")">> : p \in BindPredicates}
    \cup {<<"(">> \o p \o <<")", "or", "key", "==", "'a'">> : p \in BindPredicates}
    \cup {<<"key", "in", "[", "(">> \o p \o <<")", "]">> : p \in BindPredicates}

BindValues == {EmptyDict, "v" :> "1", "v" :> "a", "v" :> None}

\* the caller holds a source text and the values of its variables
BindText(toks, values) ==
    [op |-> "text", source |-> toks, values |-> values, raised |-> "none",
     tree |-> <<>>, value |-> Python(None), nodes |-> NoJoins]

BindWhere ==
    /\ last.op = "text"
    /\ \E r \in {where_clause(qbh.table, qbh.fk_columns, FqlText(last.source),
                              last.values)} :
           /\ last' = [last EXCEPT !.op = "where_clause", !.raised = r.error,
                                   !.tree = program(last.source).tree,
                                   !.value = r.value, !.nodes = r.nodes]
           /\ qbh' = [qbh EXCEPT !.fk_columns = r.nodes]
    /\ UNCHANGED <<conn_stack, committed, db, before_scope, exc, outcome,
                   cache, compiled, workers, columns>>

InitBind ==
    /\ conn_stack = <<>>
    /\ committed = EmptyDatabase
    /\ db = EmptyDatabase
    /\ before_scope = EmptyDatabase
    /\ exc = "none"
    /\ outcome = NoOutcome
    /\ \E toks \in BindSources, values \in BindValues : last = BindText(toks, values)
    /\ cache = lrucache(MaxCacheSize)
    /\ compiled = <<>>
    /\ workers = NoWorkers
    /\ qbh = QueryBuilderHelper("test_table3")
    /\ columns = <<>>

NextBind == BindWhere

SpecBind == InitBind /\ [][NextBind]_vars

(***************************************************************************)
(* SpecChange: each of two workers calls change_state_by_id once on the    *)
(* StateTableManager of one table.  A call is three steps: the call with   *)
(* its arguments, the UPDATE statement, which the driver executes          *)
(* atomically, and the comparison of its rowcount with len(ids).  One      *)
(* worker after the other is one of the interleavings.  before_scope holds *)
(* the table as it was before the calls.                                   *)
(***************************************************************************)
NotCalled ==
    [pc |-> "idle", id |-> 0, old_state |-> None, new_state |-> None,
     rowcount |-> 0, raised |-> "none", during |-> "idle"]

\* the other worker
Other(w) == CHOOSE v \in Workers : v # w

\* change_state_by_id(id, old_state, new_state) is called
CallChangeStateById(w, id, old_state, new_state) ==
    /\ workers[w].pc = "idle"
    /\ workers' = [workers EXCEPT ![w] = [NotCalled EXCEPT !.pc = "called", !.id = id,
                                                          !.old_state = old_state,
                                                          !.new_state = new_state]]
    /\ UNCHANGED <<conn_stack, committed, db, before_scope, exc, outcome, last,
                   cache, compiled, qbh, columns>>

\* change_state: conn.execute of the UPDATE statement
ExecuteUpdate(w, now) ==
    /\ workers[w].pc = "called"
    /\ \E u \in {change_state(db, last.table, Clause(IdIn(last.table, <<workers[w].id>>)),
                              workers[w].old_state, workers[w].new_state,
                              NoValues, now)} :
           /\ db' = u.database
           /\ workers' = [workers EXCEPT ![w].pc = "executed",
                                         ![w].rowcount = u.rowcount,
                                         ![w].raised = u.raised,
                                         ![w].during = workers[Other(w)].pc]
    /\ UNCHANGED <<conn_stack, committed, before_scope, exc, outcome, last,
                   cache, compiled, qbh, columns>>

\* change_state_many_by_id: if rowcount != len(ids): raise
CheckRowcount(w) ==
    /\ workers[w].pc = "executed"
    /\ \E c \in {check_rowcount(Wrote(workers[w].raised, workers[w].rowcount, db),
                                <<workers[w].id>>)} :
           workers' = [workers EXCEPT ![w].pc = "returned", ![w].raised = c.raised]
    /\ UNCHANGED <<conn_stack, committed, db, before_scope, exc, outcome, last,
                   cache, compiled, qbh, columns>>

InitChange ==
    /\ conn_stack = <<OpenConnection>>
    /\ committed = EmptyDatabase
    /\ \E t \in StateTables : \E rows \in StateRows(t) :
           /\ db = [EmptyDatabase EXCEPT ![t] = rows]
           /\ last = [op |-> "StateTableManager", table |-> t]
    /\ before_scope = db
    /\ exc = "none"
    /\ outcome = [NoOutcome EXCEPT !.op = "enter"]
    /\ cache = lrucache(MaxCacheSize)
    /\ compiled = <<>>
    /\ workers = [w \in Workers |-> NotCalled]
    /\ qbh = NoHelper
    /\ columns = <<>>

NextChange ==
    \/ \E w \in Workers, id \in Ids, old_state, new_state \in States :
          CallChangeStateById(w, id, old_state, new_state)
    \/ \E w \in Workers, now \in Times : ExecuteUpdate(w, now)
    \/ \E w \in Workers : CheckRowcount(w)

SpecChange == InitChange /\ [][NextChange]_vars

(***************************************************************************)
(* Claims C1 - C4: the transaction scope (Spec)                            *)
(***************************************************************************)
Left == outcome.op = "exit"

EnterStep == \E connectOk, beginOk, closeOk \in BOOLEAN : Enter(connectOk, beginOk, closeOk)

\* C1 as stated: a body that finishes without raising has its transaction
\* committed and not rolled back; a body that raises has it rolled back and
\* never committed, and the same exception reaches the caller
C1_CommitOrRollback ==
    Left =>
        /\ outcome.thrown = "none" => outcome.committed /\ ~outcome.rolled_back
        /\ outcome.thrown # "none" =>
              /\ outcome.rolled_back
              /\ ~outcome.committed
              /\ outcome.propagated = outcome.thrown

\* C1 as the code has it: a body that finishes has commit attempted; when
\* commit succeeds the transaction is committed, never rolled back, and
\* nothing is raised; when commit raises, rollback is attempted and an
\* exception reaches the caller.  A body that raises has commit never
\* attempted and rollback attempted; the same exception reaches the caller
\* unless rollback raises itself.  Only a committed scope changes the
\* durable rows.
C1_CommitOrRollbackAttempted ==
    Left =>
        /\ outcome.thrown = "none" =>
              /\ outcome.commit_called
              /\ outcome.committed =>
                    ~outcome.rollback_called /\ outcome.propagated = "none"
              /\ ~outcome.committed =>
                    outcome.rollback_called /\ outcome.propagated # "none"
        /\ outcome.thrown # "none" =>
              /\ ~outcome.commit_called
              /\ ~outcome.committed
              /\ outcome.rollback_called
              /\ outcome.rolled_back => outcome.propagated = outcome.thrown
        /\ ~outcome.committed => committed = before_scope
        /\ outcome.committed /\ outcome.dirty => committed # before_scope

\* a scope whose body changed rows and raised, left by a successful rollback
C1_Witness ==
    /\ Left
    /\ outcome.thrown = "BodyError"
    /\ outcome.propagated = "BodyError"
    /\ outcome.rolled_back
    /\ outcome.dirty

C3_NestedEntryRejected ==
    /\ [](Len(conn_stack) <= 1)
    /\ [][EnterStep /\ conn_stack # <<>> =>
            /\ outcome'.propagated = "AssertionError"
            /\ outcome'.conn = NoConnection
            /\ ~outcome'.close_called
            /\ ~outcome'.rollback_called
            /\ UNCHANGED <<conn_stack, committed, db>>]_vars

\* a rejected entry inside a scope whose body has changed rows
C3_Witness ==
    /\ outcome.op = "enter"
    /\ outcome.depth_before = 1
    /\ outcome.propagated = "AssertionError"
    /\ conn_stack = <<OpenConnection>>
    /\ db # committed

\* C4: a scope left by the UnrecoverablePersistenceException that
\* update_many_by_id or delete_many_by_id raised in it is rolled back: the
\* rows after the scope are the rows before it
C4_UnrecoverableRollsBack ==
    /\ Left
    /\ outcome.thrown = "UnrecoverablePersistenceException"
    /\ outcome.propagated = "UnrecoverablePersistenceException"
    => /\ outcome.rolled_back
       /\ ~outcome.committed
       /\ committed = before_scope
       /\ db = before_scope

\* the statement had changed rows when the exception was raised
C4_Witness ==
    /\ Left
    /\ outcome.thrown = "UnrecoverablePersistenceException"
    /\ outcome.propagated = "UnrecoverablePersistenceException"
    /\ last.op \in {"update_many_by_id", "delete_many_by_id"}
    /\ last.rowcount > 0
    /\ outcome.dirty
    /\ db = before_scope

(***************************************************************************)
(* Claims C5 - C9: the facade calls by id (SpecTable)                      *)
(***************************************************************************)
AllPresent == \A k \in 1..Len(last.ids) : last.ids[k] \in IdsOf(last.before)

\* the record read makes of a row for these fields
Record(row, fields) ==
    [f \in (IF fields = NoFields THEN ColumnSet("test_table") ELSE Range(fields)) |->
        row[f]]

\* the row INSERT makes of a dictionary, but for its primary key
Given(values) == [c \in DOMAIN OrEmpty(values) |-> OrEmpty(values)[c]]

\* C5: update_many_by_id, delete_many_by_id and their single-id forms raise
\* UnrecoverablePersistenceException exactly when some id of the list is not
\* in the table
C5_RaisesIffMissing ==
    last.op \in {"update_many_by_id", "update_by_id",
                 "delete_many_by_id", "delete_by_id"} =>
        (last.raised = "UnrecoverablePersistenceException" <=> ~AllPresent)

\* C6: when every id of the list is in the table, read_many_by_id returns
\* as many records as ids, the k-th being the record of ids[k]
C6_ReadInAskedOrder ==
    last.op = "read_many_by_id" /\ AllPresent =>
        /\ last.raised = "none"
        /\ Len(last.ret) = Len(last.ids)
        /\ \A k \in 1..Len(last.ids) :
              last.ret[k] = Record(RowOf(last.before, last.ids[k]), last.fields)

\* C7: read_by_id and read_many_by_id with an id that is not in the table
\* raise PersistenceException itself, return nothing, and no read changes
\* the table
C7_MissingIdRecoverable ==
    last.op \in {"read_by_id", "read_many_by_id"} =>
        /\ db["test_table"] = last.before
        /\ ~AllPresent =>
              /\ last.raised = "PersistenceException"
              /\ last.ret = <<>>

\* a list whose first id is in the table and whose second is not
C7_Witness ==
    /\ last.op = "read_many_by_id"
    /\ Len(last.ids) = 2
    /\ last.ids[1] \in IdsOf(last.before)
    /\ last.ids[2] \notin IdsOf(last.before)
    /\ last.fields = <<"key">>
    /\ last.raised = "PersistenceException"

\* C8: with fields given and every id in the table, each record returned by
\* read_by_id / read_many_by_id has exactly the fields asked as its keys
C8_ExactlyAskedFields ==
    /\ last.op \in {"read_by_id", "read_many_by_id"}
    /\ last.fields # NoFields
    /\ AllPresent
    => /\ last.raised = "none"
       /\ Len(last.ret) = Len(last.ids)
       /\ \A k \in 1..Len(last.ret) : DOMAIN last.ret[k] = Range(last.fields)

\* C9: a create_many that returns has inserted one row per element and
\* returns one primary key per element, the k-th being the key of the row
\* made of the k-th element; read_by_id of that key then yields the key and
\* the values given
C9_CreateManyKeys ==
    last.op = "create_many" /\ last.raised = "none" =>
        /\ Len(last.ret) = Len(last.values)
        /\ \A j, k \in 1..Len(last.ret) : j # k => last.ret[j] # last.ret[k]
        /\ \A k \in 1..Len(last.ret) : last.ret[k] \notin IdsOf(last.before)
        /\ IdsOf(db["test_table"]) = IdsOf(last.before) \cup Range(last.ret)
        /\ Cardinality(db["test_table"]) = Cardinality(last.before) + Len(last.values)
        /\ last.before \subseteq db["test_table"]
        /\ \A k \in 1..Len(last.ret) :
              \A r \in read_by_id(db, "test_table", last.ret[k], NoFields) :
                  /\ r.raised = "none"
                  /\ r.ret.id = last.ret[k]
                  /\ \A c \in DOMAIN Given(last.values[k]) :
                        r.ret[c] = Given(last.values[k])[c]

\* two rows with different values created by one call
C9_Witness ==
    /\ last.op = "create_many"
    /\ last.raised = "none"
    /\ Len(last.ret) = 2
    /\ last.values[1] # last.values[2]
    /\ last.values[1] # NoValues
    /\ Cardinality(db["test_table"]) = 2

(***************************************************************************)
(* Claim C10: read_and_count (SpecCount)                                   *)
(***************************************************************************)
\* C10: the count read_and_count returns is the number of rows read returns
\* for the same expression with no limit and no offset
C10_CountIsRowsOfRead ==
    last.op = "read_and_count" /\ last.raised = "none" =>
        \A r \in read(db, "test_table3", last.expression, NoFields, <<>>, NoInt, NoInt) :
            r.raised = "none" /\ Len(r.ret) = last.count

\* C11: read puts LIMIT in the query only when limit is given and positive and
\* OFFSET only when offset is given and positive; with a limit or an offset
\* that is absent, zero or negative the clause is not in the query and the
\* call returns what the same call without that argument returns
C11_PagingOnlyWhenPositive ==
    last.op = "read" =>
        /\ (last.clauses.limit # NoInt) <=> (last.limit # NoInt /\ last.limit[1] > 0)
        /\ (last.clauses.offset # NoInt) <=> (last.offset # NoInt /\ last.offset[1] > 0)
        /\ ~(last.limit # NoInt /\ last.limit[1] > 0) =>
               [raised |-> last.raised, ret |-> last.ret]
                   \in read(db, "test_table3", last.expression, last.fields,
                            last.order, NoInt, last.offset)
        /\ ~(last.offset # NoInt /\ last.offset[1] > 0) =>
               [raised |-> last.raised, ret |-> last.ret]
                   \in read(db, "test_table3", last.expression, last.fields,
                            last.order, last.limit, NoInt)

\* C12: a null predicate is TRUE: update(None, values) changes every row and
\* delete(None) removes every row, each returning the number of rows the
\* table held; read(None) and count(None) put no WHERE clause in the query
\* and cover every row
C12_NullPredicateIsTrue ==
    (last.op \in {"update", "delete", "read", "count"}
        /\ last.expression = NoExpression /\ last.raised = "none") =>
        /\ last.op = "update" =>
               /\ db["test_table"] =
                      {UpdatedRow("test_table", r, last.values[1]) : r \in last.before}
               /\ last.rowcount = Cardinality(last.before)
        /\ last.op = "delete" =>
               /\ db["test_table"] = {}
               /\ last.rowcount = Cardinality(last.before)
        /\ last.op \in {"read", "count"} =>
               ~where_clause("test_table", NoJoins, NoExpression,
                             convert_expression(NoExpression)).has
        /\ last.op = "read" =>
               /\ Len(last.ret) = Cardinality(last.before)
               /\ \A r \in last.before :
                      \E i \in 1..Len(last.ret) : last.ret[i] = Record(r, last.fields)
        /\ last.op = "count" => last.count = Cardinality(last.before)

\* update(None, values) on a table of two rows, one of which it changes
C12_Witness ==
    /\ last.op = "update" /\ last.expression = NoExpression /\ last.raised = "none"
    /\ Cardinality(last.before) = 2
    /\ last.rowcount = 2
    /\ db["test_table"] # last.before

(***************************************************************************)
(* Claim C13: change_state (SpecState)                                     *)
(***************************************************************************)
\* the rows of the table that matched expression and were in old_state when
\* the call ran
Hit ==
    {r \in Matched(last.before, last.table,
                   expression_clause(last.table, last.expression).value) :
        r.state = last.old_state}

\* the row with this id after the call
After(id) == CHOOSE r \in db[last.table] : r.id = id

\* C13: change_state changes only the rows that match expr and are in
\* old_state: each of them ends in new_state (also when extra carries a state
\* entry) with the other entries of extra written, every other row is
\* unchanged, the number returned counts them, and last_state_change is
\* written only when the table has that column
C13_ChangeStateFrame ==
    (last.op = "change_state" /\ last.raised = "none") =>
        /\ IdsOf(db[last.table]) = IdsOf(last.before[last.table])
        /\ \A r \in Hit :
               /\ After(r.id).state = last.new_state
               /\ \A c \in ColumnSet(last.table) \ {"state", "last_state_change"} :
                      After(r.id)[c] = IF c \in DOMAIN OrEmpty(last.other_values)
                                       THEN last.other_values[c] ELSE r[c]
               /\ has_state_change(last.table) =>
                      After(r.id).last_state_change = last.now
        /\ last.before[last.table] \ Hit \subseteq db[last.table]
        /\ last.rowcount = Cardinality(Hit)
        /\ "last_state_change" \in DOMAIN last.values => has_state_change(last.table)
        /\ \A t \in Tables \ {last.table} : db[t] = last.before[t]

\* an extra that carries another state, a row changed and a row left alone
C13_Witness ==
    /\ last.op = "change_state" /\ last.raised = "none"
    /\ "state" \in DOMAIN OrEmpty(last.other_values)
    /\ last.other_values.state # last.new_state
    /\ Hit # {}
    /\ last.before[last.table] \ Hit # {}
    /\ last.table = "stamped_table"

(***************************************************************************)
(* Claims C14 - C17: the cache of parsed trees (SpecCache)                 *)
(***************************************************************************)
\* the calls so far were of the texts A, B, C, A, three texts of the grammar
ABCA ==
    /\ Len(compiled) = 4
    /\ compiled[1].source = compiled[4].source
    /\ Cardinality({compiled[i].source : i \in 1..3}) = 3
    /\ \A i \in 1..3 : Parses(compiled[i].source)

\* C14 as stated: with capacity 2, after compiling A, B, C, A the cache holds
\* exactly {C, A} and the second compilation of A is a hit that is not parsed
C14_SecondAIsHit ==
    (cache.size = 2 /\ ABCA) =>
        /\ DOMAIN cache.table = {compiled[3].source, compiled[4].source}
        /\ compiled[4].hit
        /\ ~compiled[4].parsed

\* C14 amended: with capacity 2, after compiling A, B, C, A the cache holds
\* exactly {C, A}; the insertion of C evicted A, so the second compilation
\* of A is a miss and A is parsed again
C14_SecondAIsMiss ==
    (cache.size = 2 /\ ABCA) =>
        /\ DOMAIN cache.table = {compiled[3].source, compiled[4].source}
        /\ compiled[3].held \ compiled[3].after = {compiled[1].source}
        /\ ~compiled[4].hit
        /\ compiled[4].parsed

C14_Witness ==
    /\ cache.size = 2 /\ ABCA
    /\ \A i \in 1..4 : compiled[i].raised = "none"

\* C15: with capacity 0 every call of _compile on a text of the grammar
\* succeeds, is a miss that parses the text again, and the cache stays empty
C15_ZeroDisablesCache ==
    cache.size = 0 =>
        /\ DOMAIN cache.table = {}
        /\ \A i \in 1..Len(compiled) :
               Parses(compiled[i].source) =>
                   /\ compiled[i].raised = "none"
                   /\ ~compiled[i].hit
                   /\ compiled[i].parsed

\* the last call before call i that got or stored the tree of key
LastAccess(key, i) ==
    LET js == {j \in 1..(i - 1) : compiled[j].source = key /\ compiled[j].raised = "none"}
    IN  CHOOSE j \in js : \A k \in js : k <= j

\* C16: the cache never holds more entries than its capacity, and an
\* insertion into a full cache evicts exactly the entry whose last access
\* (hit or insertion) is the oldest; an insertion into a cache that is not
\* full evicts nothing
C16_BoundedLru ==
    cache.raised = "none" =>
        /\ Cardinality(DOMAIN cache.table) <= cache.size
        /\ \A i \in 1..Len(compiled) :
               LET e == compiled[i]
                   evicted == e.held \ e.after
               IN  /\ e.after \subseteq e.held \cup {e.source}
                   /\ IF e.raised = "none" /\ ~e.hit /\ Cardinality(e.held) = cache.size
                      THEN \E k \in e.held :
                              /\ evicted = {k}
                              /\ \A k2 \in e.held : LastAccess(k, i) <= LastAccess(k2, i)
                      ELSE evicted = {}

\* a hit made the entry inserted first the most recent one, and the next
\* insertion evicted the other entry
C16_Witness ==
    /\ cache.size = 2 /\ Len(compiled) = 4
    /\ compiled[3].hit /\ compiled[3].source = compiled[1].source
    /\ compiled[4].held \ compiled[4].after = {compiled[2].source}
    /\ DOMAIN cache.table = {compiled[1].source, compiled[4].source}

\* C17: a call of _compile that returns, hit or miss, returns the tree a
\* parse of the text yields, and every cached tree is the parse of its key,
\* also after the tree was bound by where_clause
C17_CacheTransparent ==
    /\ \A i \in 1..Len(compiled) :
           compiled[i].raised = "none" => compiled[i].tree = parseString(compiled[i].source)
    /\ \A key \in DOMAIN cache.table :
           cache.node[cache.table[key]].value = parseString(key)

\* a tree that where_clause bound is returned by a later hit
C17_Witness ==
    \E i, j \in 1..Len(compiled) :
        /\ i < j
        /\ compiled[i].op = "where_clause" /\ compiled[i].bound
        /\ compiled[j].source = compiled[i].source
        /\ compiled[j].hit
        /\ \E k \in (i + 1)..(j - 1) : compiled[k].source # compiled[i].source

(***************************************************************************)
(* Claim C18: _compile of several threads (SpecWorkers)                    *)
(***************************************************************************)
\* the thread has begun an operation on the cache and not finished it
InCache(w) == workers[w].pc \in {"mtf", "update", "fill"}

\* C18: no two threads are inside an operation on the cache at the same
\* time, and the cache never holds more entries than its capacity
C18_CacheUnderMutex ==
    /\ \A w1, w2 \in Workers : (w1 # w2 /\ InCache(w1)) => ~InCache(w2)
    /\ Cardinality(DOMAIN cache.table) <= cache.size

(***************************************************************************)
(* Claims C19, C20: column() of a QueryBuilderHelper (SpecColumn)          *)
(***************************************************************************)
\* the path of the claim: every segment but the last is a column with exactly
\* one foreign key, which targets id; no segment after the first is id; the
\* last segment is a column of the table reached
RECURSIVE ValidPath(_, _)
ValidPath(table, vals) ==
    /\ vals[1] \in ColumnSet(table)
    /\ Len(vals) > 1 =>
           /\ Cardinality(ForeignKeys(table, vals[1])) = 1
           /\ vals[2] # "id"
           /\ \A fk \in ForeignKeys(table, vals[1]) :
                  fk.column = "id" /\ ValidPath(fk.table, Tail(vals))

\* the table the foreign keys of vals lead to
RECURSIVE Reached(_, _)
Reached(table, vals) ==
    IF vals = <<>> THEN table
    ELSE Reached((CHOOSE fk \in ForeignKeys(table, vals[1]) : TRUE).table, Tail(vals))

\* C19: column(path) succeeds exactly for the paths of ValidPath and then
\* returns the column named by the last segment of the alias its foreign
\* keys lead to (of the root table for a path of one segment)
C19_ColumnIffValidPath ==
    \A i \in 1..Len(columns) :
        LET vals == split(columns[i].val)
        IN  /\ columns[i].raised = "none" <=> ValidPath(qbh.table, vals)
            /\ columns[i].raised = "none" =>
                   columns[i].value = Column(Front(vals),
                                             Reached(qbh.table, Front(vals)), Last(vals))

\* C20: a foreign-key step allocates an alias only when its parent node has
\* no child for that column: a call keeps every alias the tree holds and adds
\* nodes only for steps of its own path, two calls that share a foreign-key
\* prefix use one alias for it, and different nodes of the tree, also when
\* they lead to the same table, have different aliases
C20_OneAliasPerStep ==
    /\ \A i \in 1..Len(columns) :
           LET c == columns[i]
               vals == split(c.val)
           IN  /\ \A p \in DOMAIN c.before : p \in DOMAIN c.after /\ c.after[p] = c.before[p]
               /\ \A p \in DOMAIN c.after \ DOMAIN c.before :
                      \E k \in 1..(Len(vals) - 1) : p = SubSeq(vals, 1, k)
    /\ \A i, j \in 1..Len(columns) :
           \A k \in DOMAIN columns[i].aliases \cap DOMAIN columns[j].aliases :
               (SubSeq(split(columns[i].val), 1, k) = SubSeq(split(columns[j].val), 1, k))
                   <=> columns[i].aliases[k] = columns[j].aliases[k]
    /\ \A p, q \in DOMAIN qbh.fk_columns :
           p # q => qbh.fk_columns[p].alias # qbh.fk_columns[q].alias

\* test_table3 is reached through table3 and through other3, test_table2
\* under both, and the last call shares its first step with the first call
C20_Witness ==
    /\ Len(columns) = 3
    /\ Cardinality(DOMAIN qbh.fk_columns) = 4
    /\ columns[3].after = columns[3].before
    /\ columns[3].raised = "none"
    /\ 1 \in DOMAIN columns[3].aliases
    /\ columns[3].aliases[1] = columns[1].aliases[1]

(***************************************************************************)
(* Claim C21: from_clause() (SpecColumn)                                   *)
(***************************************************************************)
\* node p is emitted before node q in a depth-first walk that takes the
\* children of a node in ascending order of their foreign-key column name
PathBefore(p, q) ==
    \/ Len(p) < Len(q) /\ SubSeq(q, 1, Len(p)) = p
    \/ \E i \in 1..Min(Len(p), Len(q)) :
           /\ SubSeq(p, 1, i - 1) = SubSeq(q, 1, i - 1)
           /\ NameRank(p[i]) < NameRank(q[i])

\* C21: from_clause() joins every node of the tree once, depth first with
\* siblings in ascending foreign-key column name order, each node to the
\* table its path leads to, ON its id = the foreign-key column of its own
\* parent node; the joins are therefore a function of the set of paths
C21_FromClauseDepthFirst ==
    last.op = "from_clause" =>
        /\ Len(last.joins) = Cardinality(DOMAIN last.nodes)
        /\ {last.joins[i].alias : i \in 1..Len(last.joins)} = DOMAIN last.nodes
        /\ \A i, k \in 1..Len(last.joins) :
               i < k => PathBefore(last.joins[i].alias, last.joins[k].alias)
        /\ \A i \in 1..Len(last.joins) :
               /\ last.joins[i].table = Reached(last.table, last.joins[i].alias)
               /\ last.joins[i].parent = Front(last.joins[i].alias)
               /\ last.joins[i].fk = Last(last.joins[i].alias)

\* four nodes, two of them nested, resolved in another order than the one
\* they are joined in
C21_Witness ==
    /\ last.op = "from_clause"
    /\ Len(last.joins) = 4
    /\ Len(columns) >= 2
    /\ split(columns[1].val)[1] = "table3"
    /\ last.joins[1].alias = <<"other3">>
    /\ last.joins[2].parent = <<"other3">>

(***************************************************************************)
(* Claim C28: a failed column() and the join context (SpecColumn)          *)
(***************************************************************************)
\* C28: a column() call that fails leaves fk_columns as it was before the
\* call, and from_clause() after it has no join for a step of the failed path
\* that was not in the tree before the call
C28_FailedColumnKeepsContext ==
    /\ \A i \in 1..Len(columns) :
           columns[i].raised # "none" => columns[i].after = columns[i].before
    /\ (last.op = "from_clause" /\ columns # <<>>
            /\ columns[Len(columns)].raised # "none") =>
           last.joins = from_clause(columns[Len(columns)].before)

(***************************************************************************)
(* Claims C25 - C27: the parser (SpecParser)                               *)
(***************************************************************************)
\* the precedence level of a binary operator, 2 the tightest (1 is the
\* level of the unary operators)
Tightness(op) ==
    CASE op \in {"*", "/", "%"} -> 2
      [] op \in {"+", "-"} -> 3
      [] op \in {"<=", ">=", "<", ">"} -> 4
      [] op \in {"==", "!=", "in", "like", "ilike"} -> 5
      [] op = "and" -> 6
      [] op = "or" -> 7

Id(name) == <<"identifier", name>>

Op1(op, e) == <<"op1", op, e>>

Op2(op, l, r) == <<"op2", op, l, r>>

ParsedAs(tree) == last.raised = "none" /\ last.tree = tree

\* C25: in a op1 b op2 c with binary operators of two different levels the
\* operator of the tighter level groups first, a unary operator applies to
\* its operand before the binary operator next to it, and a parenthesis
\* groups first whatever the levels of the two operators
C25_PrecedenceLevels ==
    LET s == last.source
        a == Id("a")
        b == Id("b")
        c == Id("c")
        Shape(n, names, ops) ==
            /\ Len(s) = n
            /\ \A i \in DOMAIN names : s[names[i][1]] = names[i][2]
            /\ \A i \in DOMAIN ops : s[ops[i][1]] \in ops[i][2]
    IN  last.op = "parseString" =>
            /\ (Shape(5, <<<<1, "a">>, <<3, "b">>, <<5, "c">>>>,
                      <<<<2, BinaryOperators>>, <<4, BinaryOperators>>>>)
                /\ Tightness(s[2]) # Tightness(s[4])) =>
                   ParsedAs(IF Tightness(s[2]) < Tightness(s[4])
                            THEN Op2(s[4], Op2(s[2], a, b), c)
                            ELSE Op2(s[2], a, Op2(s[4], b, c)))
            /\ Shape(7, <<<<1, "(">>, <<2, "a">>, <<4, "b">>, <<5, ")">>, <<7, "c">>>>,
                     <<<<3, BinaryOperators>>, <<6, BinaryOperators>>>>) =>
                   ParsedAs(Op2(s[6], Op2(s[3], a, b), c))
            /\ Shape(7, <<<<1, "a">>, <<3, "(">>, <<4, "b">>, <<6, "c">>, <<7, ")">>>>,
                     <<<<2, BinaryOperators>>, <<5, BinaryOperators>>>>) =>
                   ParsedAs(Op2(s[2], a, Op2(s[5], b, c)))
            /\ Shape(4, <<<<2, "a">>, <<4, "b">>>>,
                     <<<<1, UnaryOperators>>, <<3, BinaryOperators>>>>) =>
                   ParsedAs(Op2(s[3], Op1(s[1], a), b))
            /\ Shape(4, <<<<1, "a">>, <<4, "b">>>>,
                     <<<<2, BinaryOperators>>, <<3, UnaryOperators>>>>) =>
                   ParsedAs(Op2(s[2], a, Op1(s[3], b)))

\* a + b * c, where the looser operator stands first
C25_Witness ==
    /\ last.op = "parseString"
    /\ last.source = <<"a", "+", "b", "*", "c">>
    /\ last.tree = Op2("+", Id("a"), Op2("*", Id("b"), Id("c")))

\* (((a op1 b) op2 c) ... opn z) for the operands and operators of a chain
RECURSIVE LeftGrouped(_, _)
LeftGrouped(toks, n) ==
    IF n = 1 THEN Id(toks[1])
    ELSE Op2(toks[n - 1], LeftGrouped(toks, n - 2), Id(toks[n]))

\* the operands and operators of a tree, from left to right
RECURSIVE InOrder(_)
InOrder(tree) ==
    CASE tree[1] = "identifier" -> <<tree[2]>>
      [] tree[1] = "op2" -> InOrder(tree[3]) \o <<tree[2]>> \o InOrder(tree[4])
      [] OTHER -> <<>>

\* toks is a op1 b op2 c ... with one or more operators of level n
IsChain(toks, n) ==
    /\ Len(toks) >= 3
    /\ Len(toks) % 2 = 1
    /\ Len(toks) <= 2 * Len(ChainOperands) - 1
    /\ \A i \in 1..Len(toks) :
           IF i % 2 = 1 THEN toks[i] = ChainOperands[(i + 1) \div 2]
           ELSE toks[i] \in Operators[n]

\* C26: a chain of binary operators of one level, the same operator or not,
\* groups to the left whatever its length, and the tree holds the operands
\* and operators of the text once each and in the order of the text
C26_ChainsGroupLeft ==
    \A n \in 3..Len(Operators) :
        (last.op = "parseString" /\ IsChain(last.source, n)) =>
            /\ ParsedAs(LeftGrouped(last.source, Len(last.source)))
            /\ InOrder(last.tree) = last.source

\* a - b + c - key: three operators, not all the same
C26_Witness ==
    /\ last.op = "parseString"
    /\ last.source = <<"a", "-", "b", "+", "c", "-", "key">>
    /\ last.tree = Op2("-", Op2("+", Op2("-", Id("a"), Id("b")), Id("c")), Id("key"))

\* the names of the identifiers of a tree
RECURSIVE Identifiers(_)
Identifiers(tree) ==
    CASE tree[1] = "identifier" -> {tree[2]}
      [] tree[1] = "list" -> UNION {Identifiers(tree[2][i]) : i \in 1..Len(tree[2])}
      [] tree[1] = "op1" -> Identifiers(tree[3])
      [] tree[1] = "op2" -> Identifiers(tree[3]) \cup Identifiers(tree[4])
      [] OTHER -> {}

\* the names of one or two segments one of which is a keyword
KeywordNames ==
    Keywords \cup {w \o "." \o k : w \in Words, k \in Keywords}
             \cup {k \o "." \o w : w \in Words, k \in Keywords}

\* C27: no tree has an identifier whose name, or a segment of whose name, is
\* a keyword, and a text that is one keyword is the literal the keyword
\* denotes or a parse error
C27_KeywordsNeverIdentifiers ==
    last.op = "parseString" =>
        /\ last.raised = "none" => Identifiers(last.tree) \cap KeywordNames = {}
        /\ \A k \in Keywords :
              last.source = <<k>> =>
                  \/ last.raised = "ParseException"
                  \/ k \in {"true", "false", "null"} /\ last.tree[1] = "literal"

(***************************************************************************)
(* Claims C22 - C24: binding a source text (SpecBind)                      *)
(***************************************************************************)
\* a list stands as the operand of a unary operator, as the left operand of
\* a binary operator, or as the right operand of one that is not in
RECURSIVE ListOperand(_)
ListOperand(tree) ==
    CASE tree[1] = "op1" -> tree[3][1] = "list" \/ ListOperand(tree[3])
      [] tree[1] = "op2" ->
            \/ tree[3][1] = "list"
            \/ tree[4][1] = "list" /\ tree[2] # "in"
            \/ ListOperand(tree[3])
            \/ ListOperand(tree[4])
      [] tree[1] = "list" -> \E i \in 1..Len(tree[2]) : ListOperand(tree[2][i])
      [] OTHER -> FALSE

\* C22: a text in which a list is the operand of a unary operator, the left
\* operand of a binary operator or the right operand of a binary operator
\* other than in does not bind: where_clause raises and yields no predicate
C22_ListOnlyRightOfIn ==
    (last.op = "where_clause" /\ last.tree # <<>> /\ ListOperand(last.tree)) =>
        last.raised # "none"

\* in, like or ilike stands somewhere in the tree with a left operand that
\* is no identifier
RECURSIVE NoColumnLeft(_)
NoColumnLeft(tree) ==
    CASE tree[1] = "op1" -> NoColumnLeft(tree[3])
      [] tree[1] = "op2" ->
            \/ tree[2] \in {"in", "like", "ilike"} /\ tree[3][1] # "identifier"
            \/ NoColumnLeft(tree[3])
            \/ NoColumnLeft(tree[4])
      [] tree[1] = "list" -> \E i \in 1..Len(tree[2]) : NoColumnLeft(tree[2][i])
      [] OTHER -> FALSE

\* C23: a text with an in, like or ilike whose left operand is no column (a
\* literal, a variable, a list or a compound expression), wherever the
\* operator stands in the tree, does not bind
C23_LeftOperandMustBeColumn ==
    (last.op = "where_clause" /\ last.tree # <<>> /\ NoColumnLeft(last.tree)) =>
        last.raised # "none"

\* the variables of a tree
RECURSIVE VariablesOf(_)
VariablesOf(tree) ==
    CASE tree[1] = "variable" -> {tree[2]}
      [] tree[1] = "op1" -> VariablesOf(tree[3])
      [] tree[1] = "op2" -> VariablesOf(tree[3]) \cup VariablesOf(tree[4])
      [] tree[1] = "list" -> UNION {VariablesOf(tree[2][i]) : i \in 1..Len(tree[2])}
      [] OTHER -> {}

\* C24: binding the same text with another dictionary of the same keys ends
\* the same way (it returns, or raises the same exception) with the same
\* join context, and a text with a variable the dictionary does not hold
\* does not bind
C24_ValuesAreOpaque ==
    last.op = "where_clause" =>
        /\ \A values \in BindValues :
              DOMAIN values = DOMAIN last.values =>
                  \E r \in {where_clause("test_table3", NoJoins, FqlText(last.source),
                                         values)} :
                      r.error = last.raised /\ r.nodes = last.nodes
        /\ (last.tree # <<>> /\ ~(VariablesOf(last.tree) \subseteq DOMAIN last.values)) =>
               last.raised # "none"

(***************************************************************************)
(* Claim C29: change_state_by_id of two workers (SpecChange)               *)
(***************************************************************************)
\* both workers issued change_state_by_id(id, s1, s2), s1 # s2, for a row
\* that was in state s1, and both calls are over
TwiceIssued(id, s1, s2) ==
    /\ s1 # s2
    /\ id \in IdsOf(before_scope[last.table])
    /\ RowOf(before_scope[last.table], id).state = s1
    /\ \A w \in Workers :
          /\ workers[w].pc = "returned"
          /\ workers[w].id = id
          /\ workers[w].old_state = s1
          /\ workers[w].new_state = s2

\* C29: when change_state_by_id(id, s1, s2), s1 # s2, is issued twice for an
\* existing row in state s1, one after the other or interleaved with atomic
\* UPDATE statements, one call completes without error, the other raises
\* UnrecoverablePersistenceException, and the row ends in state s2
C29_CompareAndSet ==
    \A id \in Ids, s1, s2 \in States :
        TwiceIssued(id, s1, s2) =>
            /\ \E w \in Workers :
                  /\ workers[w].raised = "none"
                  /\ workers[Other(w)].raised = "UnrecoverablePersistenceException"
            /\ id \in IdsOf(db[last.table])
            /\ RowOf(db[last.table], id).state = s2

\* the losing call's UPDATE ran between the UPDATE and the rowcount check of
\* the winning call
C29_Witness ==
    \E id \in Ids, s1, s2 \in States :
        /\ TwiceIssued(id, s1, s2)
        /\ \E w \in Workers :
              /\ workers[w].raised = "UnrecoverablePersistenceException"
              /\ workers[w].during = "executed"
              /\ workers[Other(w)].raised = "none"

====
